---- MODULE Spec2Model ----
(***************************************************************************)
(* The idempotent execution layer of the voice backend:                    *)
(* ExecutionService (backend/app/services/execution_service.py) run by     *)
(* asyncio tasks on one event loop.  Code between two suspension points    *)
(* of a coroutine is one atomic step.  The suspension points of            *)
(* execute_calendar_intent are the wait for the per-intent asyncio.Lock    *)
(* (only when the lock is taken) and the HTTP request client.post.         *)
(* RealtimeHandler (backend/app/services/realtime_handler.py) is the       *)
(* orchestrator in front of it: handle_tool_call routes a tool call,       *)
(* create_appointment parses, validates, checks the ledger, writes the     *)
(* appointment to storage, calls execute_calendar_intent and confirms the  *)
(* stored appointment.  Its further suspension points are the two storage  *)
(* transactions.                                                           *)
(* IntentService (backend/app/services/intent_service.py) parses and       *)
(* validates the payload of a tool call; StateService                      *)
(* (backend/app/services/state_service.py) keeps the state of each call in *)
(* memory or in Redis, where a read and the write that follows it are two  *)
(* steps.                                                                  *)
(***************************************************************************)
EXTENDS Naturals, Integers, Sequences, FiniteSets, TLC

\* ------------------------------------------------------------------ bounds
NumTasks == 3
MaxResets == 2
MaxCancels == 1
MaxPlainCalls == 1
MaxHandlerResets == 1

Tasks == 1..NumTasks

\* StateService: the clients that call it, the calls they make, the clock
NumClients == 2
MaxStoreOps == 3
MaxTime == 3
Clients == 1..NumClients

\* ------------------------------------------------------------- data values
\* Python's None, where a string is expected and where an object is expected
None == "None"
Nil == [nil |-> TRUE]

\* intent.intent_id of the intents handed to execute_calendar_intent
\* (None: an intent built without an id).
CallIds == {"c1", "c2"}
IntentIds == {"a", None}

\* ExecutionStatus
PENDING == "pending"
EXECUTING == "executing"
EXECUTED == "executed"
FAILED == "failed"
DUPLICATE == "duplicate"
ExecutionStatus == {PENDING, EXECUTING, EXECUTED, FAILED, DUPLICATE}

\* intent_id = intent.intent_id or "unknown"
IntentKey(intent_id) == IF intent_id = None THEN "unknown" ELSE intent_id

Keys == {IntentKey(i) : i \in IntentIds}

EmptyDict == [kind |-> "dict", raw |-> None]

\* A str, as the sequence of its parts; the empty string has none
Str(parts) == [text |-> parts]
NoText == Str(<<>>)

\* ExecutionResult.__init__ stamping executed_at whatever the outcome
ExecutionResultAlwaysStamped(success, status, intent_id, zapier_response, error, is_duplicate) ==
    [success |-> success,
     status |-> status,
     intent_id |-> intent_id,
     zapier_response |-> IF zapier_response = Nil THEN EmptyDict ELSE zapier_response,
     error |-> error,
     is_duplicate |-> is_duplicate,
     executed_at |-> "utcnow"]

\* ExecutionResult.__init__: zapier_response or {}, executed_at only on success
ExecutionResult(success, status, intent_id, zapier_response, error, is_duplicate) ==
    [success |-> success,
     status |-> status,
     intent_id |-> intent_id,
     zapier_response |-> IF zapier_response = Nil THEN EmptyDict ELSE zapier_response,
     error |-> error,
     is_duplicate |-> is_duplicate,
     executed_at |-> IF success THEN "utcnow" ELSE None]

\* ----------------------------------------------------- the webhook's answers
\* What client.post can do: answer with a status code and a body that is
\* JSON or not, or raise (a timeout after 30 s, a transport error).
Response(status_code, body) ==
    [kind |-> "response", status_code |-> status_code, body |-> body]
Responses ==
    {Response(200, "json"), Response(200, "text"), Response(201, "json"),
     Response(202, "text"), Response(500, "text")}
Raised == [kind : {"raise"}, exc : {"TimeoutException", "ConnectError"}]
Outcomes == Responses \cup Raised

\* response.status_code not in [200, 201, 202]
SuccessCodesOnly200 == {200}
SuccessCodes == {200, 201, 202}

\* str(e) of what _call_zapier_webhook raises.  An httpx timeout carries the
\* str() of the underlying TimeoutError, which is the empty string.
StrOfException(e) ==
    CASE e.type = "ValueError" -> Str(<<"ZAPIER_WEBHOOK_URL not configured">>)
      [] e.type = "Exception" -> Str(<<"Zapier returned", e.status_code, e.text>>)
      [] e.type = "TimeoutException" -> NoText
      [] OTHER -> Str(<<"All connection attempts failed">>)

\* response.json() of a body that is a JSON object ("json") or a JSON array
\* ("json_array"), and the wrapping of a body that is not JSON
ResponseJson(o) ==
    IF o.body = "json" THEN [kind |-> "dict", raw |-> "json"]
    ELSE IF o.body = "json_array" THEN [kind |-> "list", raw |-> "json_array"]
    ELSE [kind |-> "accepted", raw |-> o.body]

\* ------------------------------------------------------------------- state
VARIABLES
    webhook_url,     \* settings.ZAPIER_WEBHOOK_URL is set (fixed at construction)
    executions,      \* self._executions: key -> ExecutionResult, Nil when absent
    locks,           \* self._locks: key -> index of a lock object, 0 when absent
    lockObjs,        \* the asyncio.Lock objects created so far
    pc,              \* where each task is in execute_calendar_intent
    tintent,         \* the intent_id of the intent the task was called with
    tlock,           \* the lock object the task got from _get_lock
    result,          \* what the call returned
    webhookCalls,    \* client.post invocations per key
    resets,          \* reset_execution calls so far
    cancels,         \* task cancellations so far
    purged,          \* history: reset_execution returned True for the key
    arrival,         \* history: the record's status when the call started
    concurrent,      \* history: no call for the key had ended when this one started
    seen,            \* history: the record's status at the duplicate check
    called,          \* history: the task invoked client.post
    outcome,         \* history: what the task's external call did
    afterReset,      \* history: an EXECUTED record was reset, no call served since
    hpc,             \* where each task is in handle_tool_call
    tool,            \* the tool_name and tool_args the task was called with
    hresult,         \* the dict handle_tool_call returned
    storage,         \* the appointments table: id -> status of the row
    db_appointment_id, \* the task's db_appointment_id
    checked,         \* history: what was_executed returned to the task
    raw_input,       \* the tool-call payload handed to IntentService
    iphase,          \* how far IntentService has got with it
    parsed,          \* what parse_tool_call_safely returned
    validation,      \* what validate_calendar_intent returned, or raised
    use_redis,       \* StateService.use_redis
    states,          \* CallState._states: call_id -> state dict
    redis,           \* the keys call_state:<call_id> of Redis, with their expiry
    now,             \* the clock, in half days
    spc,             \* position of each client's StateService call
    sop,             \* the StateService call each client is in
    slocal,          \* the state dict that call has read
    sops,            \* number of StateService calls made
    touched,         \* history: when each call's state was last written
    escalations,     \* history: the mark_escalated that completed on a call
    lastop           \* history: the last write of a StateService call

\* The state of the orchestrator and of storage
hvars == <<hpc, tool, hresult, storage, db_appointment_id, checked>>

\* The state of a payload on its way through IntentService
ivars == <<raw_input, iphase, parsed, validation>>

\* The state of the conversation state store and of the calls into it
svars == <<use_redis, states, redis, now, spc, sop, slocal, sops, touched,
           escalations, lastop>>

\* The state of the components a ledger or orchestrator step leaves alone
ovars == <<ivars, use_redis, states, redis, now, spc, sop, slocal, sops,
           touched, escalations, lastop>>

vars == <<webhook_url, executions, locks, lockObjs, pc, tintent, tlock, result,
          webhookCalls, resets, cancels, purged, arrival, concurrent, seen, called,
          outcome, afterReset, hpc, tool, hresult, storage, db_appointment_id,
          checked, raw_input, iphase, parsed, validation, use_redis, states,
          redis, now, spc, sop, slocal, sops, touched, escalations, lastop>>

tkey(t) == IntentKey(tintent[t])

StatusOf(k) == IF executions[k] = Nil THEN "none" ELSE executions[k].status

\* ------------------------------------------------------------ asyncio.Lock
NewLock == [locked |-> FALSE, waiters |-> <<>>, woken |-> FALSE]

\* Lock.acquire without suspension: not locked and nobody waiting
CanAcquireUnfair(l) == TRUE
CanAcquire(l) == ~l.locked /\ l.waiters = <<>>

\* Lock.release: unlock and set the first waiter's future
ReleaseNoWake(objs, i) == [objs EXCEPT ![i].locked = FALSE]
Release(objs, i) ==
    [objs EXCEPT ![i] = [locked |-> FALSE,
                         waiters |-> @.waiters,
                         woken |-> @.waiters # <<>>]]

RemoveWaiter(w, t) == SelectSeq(w, LAMBDA x : x # t)

\* --------------------------------------------------------- ExecutionService
\* _get_lock: one lock per intent id
LockSlotShared(k) == "unknown"
LockSlot(k) == k

\* existing.status in [EXECUTED, EXECUTING]
IsDuplicateStatusExecutingOnly(s) == s = EXECUTING
IsDuplicateStatusAlsoFailed(s) == s \in {EXECUTED, EXECUTING, FAILED}
IsDuplicateStatus(s) == s \in {EXECUTED, EXECUTING}

DuplicateResultUnflagged(k) == ExecutionResult(TRUE, DUPLICATE, k, Nil, Nil, FALSE)
DuplicateResult(k) == ExecutionResult(TRUE, DUPLICATE, k, Nil, Nil, TRUE)

ExecutingResultPending(k) == ExecutionResult(FALSE, PENDING, k, Nil, Nil, FALSE)
ExecutingResult(k) == ExecutionResult(FALSE, EXECUTING, k, Nil, Nil, FALSE)

FailedResultNoText(k, e) == ExecutionResult(FALSE, FAILED, k, Nil, Nil, FALSE)
FailedResult(k, e) == ExecutionResult(FALSE, FAILED, k, Nil, StrOfException(e), FALSE)

ExecutedResult(k, o) == ExecutionResult(TRUE, EXECUTED, k, ResponseJson(o), Nil, FALSE)

\* was_executed
was_executedWhileExecuting(k) ==
    /\ executions[k] # Nil
    /\ executions[k].status \in {EXECUTED, DUPLICATE, EXECUTING}
was_executed(k) ==
    /\ executions[k] # Nil
    /\ executions[k].status \in {EXECUTED, DUPLICATE}

\* The ledger, the orchestrator and storage after construction
LedgerInit ==
    /\ executions = [k \in Keys |-> Nil]
    /\ locks = [k \in Keys |-> 0]
    /\ lockObjs = <<>>
    /\ pc = [t \in Tasks |-> "idle"]
    /\ tintent = [t \in Tasks |-> None]
    /\ tlock = [t \in Tasks |-> 0]
    /\ result = [t \in Tasks |-> Nil]
    /\ webhookCalls = [k \in Keys |-> 0]
    /\ resets = 0
    /\ cancels = 0
    /\ purged = [k \in Keys |-> FALSE]
    /\ arrival = [t \in Tasks |-> "none"]
    /\ concurrent = [t \in Tasks |-> FALSE]
    /\ seen = [t \in Tasks |-> "unserved"]
    /\ called = [t \in Tasks |-> FALSE]
    /\ outcome = [t \in Tasks |-> [kind |-> "none"]]
    /\ afterReset = [k \in Keys |-> FALSE]
    /\ hpc = [t \in Tasks |-> "idle"]
    /\ tool = [t \in Tasks |-> Nil]
    /\ hresult = [t \in Tasks |-> Nil]
    /\ storage = [k \in Keys |-> "none"]
    /\ db_appointment_id = [t \in Tasks |-> None]
    /\ checked = [t \in Tasks |-> "unchecked"]

\* No payload in IntentService
IntentIdle ==
    /\ raw_input = Nil
    /\ iphase = "off"
    /\ parsed = Nil
    /\ validation = Nil

\* The state store after construction: both backends empty
StoreEmpty ==
    /\ states = [c \in CallIds |-> Nil]
    /\ redis = [c \in CallIds |-> Nil]
    /\ now = 0
    /\ spc = [t \in Clients |-> "idle"]
    /\ sop = [t \in Clients |-> Nil]
    /\ slocal = [t \in Clients |-> Nil]
    /\ sops = 0
    /\ touched = [c \in CallIds |-> 0]
    /\ escalations = [c \in CallIds |-> Nil]
    /\ lastop = [op |-> "none"]

Init ==
    /\ webhook_url \in BOOLEAN
    /\ LedgerInit
    /\ IntentIdle
    /\ use_redis = FALSE
    /\ StoreEmpty

\* _call_zapier_webhook once client.post has answered or raised: the
\* ExecutionResult it returns, or the exception it raises
CallZapierWebhook(k, o) ==
    IF o.kind = "raise"
    THEN [raised |-> TRUE, exc |-> [type |-> o.exc]]
    ELSE IF o.status_code \notin SuccessCodes
    THEN [raised |-> TRUE,
          exc |-> [type |-> "Exception", status_code |-> o.status_code, text |-> o.body]]
    ELSE [raised |-> FALSE, value |-> ExecutedResult(k, o)]

\* The body of `async with lock` up to its first suspension, entered by task t
\* with lock object i just acquired in objs: the duplicate check, the EXECUTING
\* mark, and _call_zapier_webhook up to client.post (or its ValueError when no
\* URL is configured, which the except clause turns into FAILED at once).
Critical(t, k, i, objs) ==
    /\ seen' = [seen EXCEPT ![t] = StatusOf(k)]
    /\ afterReset' = [afterReset EXCEPT ![k] = FALSE]
    /\ IF executions[k] # Nil /\ IsDuplicateStatus(executions[k].status)
       THEN /\ result' = [result EXCEPT ![t] = DuplicateResult(k)]
            /\ pc' = [pc EXCEPT ![t] = "done"]
            /\ lockObjs' = Release(objs, i)
            /\ UNCHANGED <<executions, webhookCalls, called, outcome>>
       ELSE IF ~webhook_url
       THEN /\ executions' = [executions EXCEPT
                                ![k] = FailedResult(k, [type |-> "ValueError"])]
            /\ result' = [result EXCEPT ![t] = FailedResult(k, [type |-> "ValueError"])]
            /\ pc' = [pc EXCEPT ![t] = "done"]
            /\ lockObjs' = Release(objs, i)
            /\ outcome' = [outcome EXCEPT ![t] = [kind |-> "unconfigured"]]
            /\ UNCHANGED <<webhookCalls, called>>
       ELSE /\ executions' = [executions EXCEPT ![k] = ExecutingResult(k)]
            /\ webhookCalls' = [webhookCalls EXCEPT ![k] = @ + 1]
            /\ called' = [called EXCEPT ![t] = TRUE]
            /\ pc' = [pc EXCEPT ![t] = "webhook"]
            /\ lockObjs' = objs
            /\ UNCHANGED <<result, outcome>>

\* A task calls execute_calendar_intent(intent): _get_lock, then `async with
\* lock`, which goes on without suspension when the lock is free.  Tasks are
\* interchangeable, so they start in the order of their numbers.
execute_calendar_intent(t, intent_id) ==
    /\ pc[t] = "idle"
    /\ LET k == IntentKey(intent_id)
           slot == LockSlot(k)
           fresh == locks[slot] = 0
           objs0 == IF fresh THEN Append(lockObjs, NewLock) ELSE lockObjs
           i == IF fresh THEN Len(lockObjs) + 1 ELSE locks[slot]
       IN  /\ tintent' = [tintent EXCEPT ![t] = intent_id]
           /\ locks' = [locks EXCEPT ![slot] = i]
           /\ tlock' = [tlock EXCEPT ![t] = i]
           /\ arrival' = [arrival EXCEPT ![t] = StatusOf(k)]
           /\ concurrent' = [concurrent EXCEPT ![t] =
                  \A u \in Tasks : (pc[u] # "idle" /\ tkey(u) = k)
                                       => pc[u] \in {"waiting", "webhook"}]
           /\ IF CanAcquire(objs0[i])
              THEN Critical(t, k, i, [objs0 EXCEPT ![i].locked = TRUE])
              ELSE /\ lockObjs' = [objs0 EXCEPT ![i].waiters = Append(@, t)]
                   /\ pc' = [pc EXCEPT ![t] = "waiting"]
                   /\ UNCHANGED <<executions, result, webhookCalls, seen, called,
                                  outcome, afterReset>>
    /\ UNCHANGED <<webhook_url, resets, cancels, purged>>

\* execute_calendar_intent called on the service directly
Execute(t, intent_id) ==
    /\ \A u \in Tasks : u < t => pc[u] # "idle"
    /\ execute_calendar_intent(t, intent_id)
    /\ UNCHANGED hvars
    /\ UNCHANGED ovars

\* The first waiter of a released lock resumes in Lock.acquire, takes the lock
\* and enters the body.
LockAcquired(t) ==
    /\ pc[t] = "waiting"
    /\ LET i == tlock[t]
           l == lockObjs[i]
       IN  /\ l.woken
           /\ l.waiters # <<>>
           /\ Head(l.waiters) = t
           /\ Critical(t, tkey(t), i,
                       [lockObjs EXCEPT ![i] = [locked |-> TRUE,
                                                waiters |-> Tail(l.waiters),
                                                woken |-> FALSE]])
    /\ UNCHANGED <<webhook_url, locks, tintent, tlock, resets, cancels, purged,
                   arrival, concurrent>>

Wake(t) == LockAcquired(t) /\ UNCHANGED hvars /\ UNCHANGED ovars

\* client.post answers or raises: the result is stored (EXECUTED), or the
\* except clause stores FAILED with str(e); the lock is released on the way out.
ClientPostReturns(t, o) ==
    /\ pc[t] = "webhook"
    /\ LET k == tkey(t)
           c == CallZapierWebhook(k, o)
           r == IF c.raised THEN FailedResult(k, c.exc) ELSE c.value
       IN  /\ executions' = [executions EXCEPT ![k] = r]
           /\ result' = [result EXCEPT ![t] = r]
    /\ pc' = [pc EXCEPT ![t] = "done"]
    /\ lockObjs' = Release(lockObjs, tlock[t])
    /\ outcome' = [outcome EXCEPT ![t] = o]
    /\ UNCHANGED <<webhook_url, locks, tintent, tlock, webhookCalls, resets, cancels,
                   purged, arrival, concurrent, seen, called, afterReset>>

WebhookReturn(t, o) == ClientPostReturns(t, o) /\ UNCHANGED hvars /\ UNCHANGED ovars

\* The task running the call is cancelled at a suspension point.
\* CancelledError is no Exception: the except clause does not run, and the
\* `async with` blocks are left (the lock released when held).  A waiter
\* leaves the queue and hands a wake-up it had received to the next one.
Cancelled(t) ==
    /\ cancels < MaxCancels
    /\ pc[t] \in {"waiting", "webhook"}
    /\ LET i == tlock[t]
           l == lockObjs[i]
           rest == RemoveWaiter(l.waiters, t)
       IN  lockObjs' = IF pc[t] = "webhook"
                       THEN Release(lockObjs, i)
                       ELSE [lockObjs EXCEPT ![i] =
                                [locked |-> l.locked,
                                 waiters |-> rest,
                                 woken |-> l.woken /\ rest # <<>>]]
    /\ pc' = [pc EXCEPT ![t] = "cancelled"]
    /\ cancels' = cancels + 1
    /\ UNCHANGED <<webhook_url, executions, locks, tintent, tlock, result,
                   webhookCalls, resets, purged, arrival, concurrent, seen, called,
                   outcome, afterReset>>

Cancel(t) == Cancelled(t) /\ UNCHANGED hvars /\ UNCHANGED ovars

\* reset_execution(intent_id), called by POST /reset/{intent_id}
ResetExecution(k) ==
    /\ resets < MaxResets
    /\ resets' = resets + 1
    /\ IF executions[k] # Nil
       THEN /\ executions' = [executions EXCEPT ![k] = Nil]
            /\ locks' = [locks EXCEPT ![k] = 0]
            /\ purged' = [purged EXCEPT ![k] = TRUE]
            /\ afterReset' = [afterReset EXCEPT ![k] = executions[k].status = EXECUTED]
       ELSE UNCHANGED <<executions, locks, purged, afterReset>>
    /\ UNCHANGED <<webhook_url, lockObjs, pc, tintent, tlock, result, webhookCalls,
                   cancels, arrival, concurrent, seen, called, outcome>>
    /\ UNCHANGED hvars
    /\ UNCHANGED ovars

Next ==
    \/ \E t \in Tasks, intent_id \in IntentIds : Execute(t, intent_id)
    \/ \E t \in Tasks : Wake(t)
    \/ \E t \in Tasks, o \in Outcomes : WebhookReturn(t, o)
    \/ \E t \in Tasks : Cancel(t)
    \/ \E k \in Keys : ResetExecution(k)

Spec == Init /\ [][Next]_vars

\* The event loop runs every ready task, and client.post returns within its
\* timeout.
FairSpec ==
    /\ Spec
    /\ \A t \in Tasks : WF_vars(Wake(t))
    /\ \A t \in Tasks : WF_vars(\E o \in Outcomes : WebhookReturn(t, o))

TypeOK ==
    /\ webhook_url \in BOOLEAN
    /\ \A t \in Tasks : pc[t] \in {"idle", "waiting", "webhook", "done", "cancelled"}
    /\ \A k \in Keys : locks[k] \in 0..Len(lockObjs)

\* ---------------------------------------------------------- RealtimeHandler
\* The state of ExecutionService and of the calls into it
evars == <<webhook_url, executions, locks, lockObjs, pc, tintent, tlock, result,
           webhookCalls, resets, cancels, purged, arrival, concurrent, seen,
           called, outcome, afterReset>>

\* tool_name of a tool call: the four routed names and one that is not routed
KnownTools == {"create_appointment", "escalate_call", "complete_intake", "end_call"}
ToolNames == KnownTools \cup {"transfer_call"}

\* Python values of a tool call.  A str is written [str |-> s] where only
\* its identity matters and [chars |-> <<c1, ..., cn>>] where its characters
\* do (the emails); an int is [int |-> n], a list [list |-> <<v1, ..., vn>>].
\* A dict is a record of such values under kind = "dict"; a str that holds a
\* JSON text is given by the whitespace around it and the document it spells.
PyStr(s) == [str |-> s]
PyChars(cs) == [chars |-> cs]
PyInt(n) == [int |-> n]
PyList(vs) == [list |-> vs]

IsStr(v) == "str" \in DOMAIN v \/ "chars" \in DOMAIN v
IsList(v) == "list" \in DOMAIN v

\* bool(v): the empty str, the empty list and 0 are false
Truthy(v) ==
    CASE "str" \in DOMAIN v -> v.str # ""
      [] "chars" \in DOMAIN v -> v.chars # <<>>
      [] "int" \in DOMAIN v -> v.int # 0
      [] "list" \in DOMAIN v -> v.list # <<>>
      [] OTHER -> FALSE

\* The characters of a str
Chars(v) == IF "chars" \in DOMAIN v THEN v.chars ELSE <<v.str>>

\* The emails of the payloads: a plain one, the same one in upper case with
\* spaces around it, another address, and one without "@"
PlainEmail == <<"a", "@", "x", ".", "i", "o">>
ShoutedEmail == <<" ", "A", "@", "X", ".", "I", "O", " ">>
OtherEmail == <<"b", "@", "x", ".", "i", "o">>
InvalidEmail == <<"a", "x", ".", "i", "o">>

\* The times of the payloads
StartTime == "2025-01-01T10:00:00Z"
EndTime == "2025-01-01T11:00:00+00:00"
NoTime == "tomorrow"
NaiveTime == "2025-01-01T10:00:00"

\* tool_args of a create_appointment call: a string that is no JSON, a dict
\* that lacks a required field, a dict with a malformed attendee email, a
\* dict whose attendees is no list, and a dict with all fields valid and its
\* intent_id given
ValidArgs ==
    [kind |-> "dict", title |-> PyStr("Checkup"), start_time |-> PyStr(StartTime),
     end_time |-> PyStr(EndTime), attendee_email |-> PyChars(PlainEmail),
     intent_id |-> PyStr("a")]

CreateArgs ==
    {[kind |-> "str", padded |-> FALSE, doc |-> [json |-> "malformed"]],
     [kind |-> "dict", title |-> PyStr("Checkup"), start_time |-> PyStr(StartTime),
      end_time |-> PyStr(EndTime)],
     [kind |-> "dict", title |-> PyStr("Checkup"), start_time |-> PyStr(StartTime),
      end_time |-> PyStr(EndTime), attendee_email |-> PyChars(InvalidEmail)],
     [kind |-> "dict", title |-> PyStr("Checkup"), start_time |-> PyStr(StartTime),
      end_time |-> PyStr(EndTime), attendee_email |-> PyChars(PlainEmail),
      attendees |-> PyInt(5)],
     ValidArgs}

\* tool_args of the other tools: a dict with the caller's fields, an empty
\* dict, and no dict at all
OtherArgs ==
    {[kind |-> "dict", reason |-> "caller hung up", urgency |-> "high",
      structured_data |-> "intake"],
     [kind |-> "dict"],
     [kind |-> "none"]}

ToolCalls ==
    [name : {"create_appointment"}, args : CreateArgs]
        \cup [name : ToolNames \ {"create_appointment"}, args : OtherArgs]

\* tool_args.get(key, default); a value that is no dict has no get
DictGet(args, key, default) ==
    IF key \in DOMAIN args THEN args[key] ELSE default

\* sep.join(parts), as the pieces of the text
RECURSIVE Join(_, _)
Join(parts, sep) ==
    IF parts = <<>> THEN <<>>
    ELSE IF Len(parts) = 1 THEN parts[1]
    ELSE parts[1] \o <<sep>> \o Join(Tail(parts), sep)

\* IntentService.parse_tool_call_safely: (parsed_data, error_message).
\* raw_data.strip() drops the whitespace around the text, json.loads gives
\* the value the document spells or raises JSONDecodeError.
parse_tool_call_safelyAcceptsAll(raw_data) ==
    [data |-> raw_data, error |-> Nil]
parse_tool_call_safely(raw_data) ==
    CASE raw_data.kind = "none" ->
            [data |-> Nil, error |-> Str(<<"Tool call data is None">>)]
      [] raw_data.kind = "dict" ->
            [data |-> raw_data, error |-> Nil]
      [] raw_data.kind = "str" ->
            LET cleaned == raw_data.doc
            IN  CASE cleaned.json = "" ->
                        [data |-> Nil, error |-> Str(<<"Empty tool call data">>)]
                  [] cleaned.json = "object" ->
                        [data |-> cleaned.value, error |-> Nil]
                  [] cleaned.json \in {"list", "int", "NoneType"} ->
                        [data |-> Nil,
                         error |-> Str(<<"Expected object, got ", cleaned.json>>)]
                  [] OTHER ->
                        [data |-> Nil, error |-> Str(<<"Invalid JSON: ", cleaned.json>>)]
      [] OTHER ->
            [data |-> Nil, error |-> Str(<<"Unexpected data type: ", raw_data.kind>>)]

\* str.strip() and str.lower() on the characters of a str
Whitespace == {" ", "\t", "\n"}
RECURSIVE LStrip(_)
LStrip(cs) ==
    IF cs # <<>> /\ Head(cs) \in Whitespace THEN LStrip(Tail(cs)) ELSE cs
RECURSIVE RStrip(_)
RStrip(cs) ==
    IF cs # <<>> /\ cs[Len(cs)] \in Whitespace
    THEN RStrip(SubSeq(cs, 1, Len(cs) - 1)) ELSE cs
Strip(cs) == RStrip(LStrip(cs))

UpperCase == <<"A", "B", "C", "D", "E", "F", "G", "H", "I", "J", "K", "L", "M",
               "N", "O", "P", "Q", "R", "S", "T", "U", "V", "W", "X", "Y", "Z">>
LowerCase == <<"a", "b", "c", "d", "e", "f", "g", "h", "i", "j", "k", "l", "m",
               "n", "o", "p", "q", "r", "s", "t", "u", "v", "w", "x", "y", "z">>
LowerChar(c) ==
    IF \E i \in DOMAIN UpperCase : UpperCase[i] = c
    THEN LowerCase[CHOOSE i \in DOMAIN UpperCase : UpperCase[i] = c]
    ELSE c
Lower(cs) == [i \in DOMAIN cs |-> LowerChar(cs[i])]

\* re.match(email_regex, email):
\*   ^[a-zA-Z0-9._%+-]+@[a-zA-Z0-9.-]+\.[a-zA-Z]{2,}$
Letters == {UpperCase[i] : i \in DOMAIN UpperCase}
              \cup {LowerCase[i] : i \in DOMAIN LowerCase}
Digits == {"0", "1", "2", "3", "4", "5", "6", "7", "8", "9"}
LocalChars == Letters \cup Digits \cup {".", "_", "%", "+", "-"}
DomainChars == Letters \cup Digits \cup {".", "-"}
MatchesEmailRegexLenient(cs) == cs # <<>>
MatchesEmailRegex(cs) ==
    \E at \in DOMAIN cs : \E dot \in DOMAIN cs :
        /\ cs[at] = "@"
        /\ at > 1
        /\ \A i \in 1..(at - 1) : cs[i] \in LocalChars
        /\ dot > at + 1
        /\ \A i \in (at + 1)..(dot - 1) : cs[i] \in DomainChars
        /\ cs[dot] = "."
        /\ Len(cs) - dot >= 2
        /\ \A i \in (dot + 1)..Len(cs) : cs[i] \in Letters

\* How the texts of the payloads are spelled: a date, a time of day and a UTC
\* offset, each "" when the text has none
Spelling(v) ==
    CASE v = StartTime -> [date |-> "2025-01-01", time |-> "10:00:00", offset |-> "Z"]
      [] v = EndTime -> [date |-> "2025-01-01", time |-> "11:00:00", offset |-> "+00:00"]
      [] v = NaiveTime -> [date |-> "2025-01-01", time |-> "10:00:00", offset |-> ""]
      [] OTHER -> [date |-> "", time |-> "", offset |-> ""]

\* v.replace("Z", "+00:00")
ReplaceZ(s) == [s EXCEPT !.offset = IF @ = "Z" THEN "+00:00" ELSE @]

\* datetime.fromisoformat(text) does not raise: the text is a date, alone or
\* followed by a time of day, with an offset +HH:MM or with none
FromIsoformatAccepts(s) ==
    /\ s.date # ""
    /\ s.offset \in {"", "+00:00"}
    /\ s.offset # "" => s.time # ""

\* CalendarEventIntent.validate_iso8601: datetime.fromisoformat accepts the
\* text once "Z" is replaced by "+00:00"
validate_iso8601(v) == FromIsoformatAccepts(ReplaceZ(Spelling(v)))

\* CalendarEventIntent.validate_attendees: the emails stripped and in lower
\* case, or the first one the pattern rejects
NormalizeEmail(email) == Lower(Strip(email))
validate_attendees(v) ==
    IF \E i \in DOMAIN v : ~MatchesEmailRegex(NormalizeEmail(v[i]))
    THEN [rejected |-> TRUE,
          email |-> NormalizeEmail(v[CHOOSE i \in DOMAIN v :
                         /\ ~MatchesEmailRegex(NormalizeEmail(v[i]))
                         /\ \A j \in 1..(i - 1) : MatchesEmailRegex(NormalizeEmail(v[j]))])]
    ELSE [rejected |-> FALSE,
          validated |-> [i \in DOMAIN v |-> NormalizeEmail(v[i])]]

\* The errors pydantic reports for one field of CalendarEventIntent, each
\* "loc: msg"
StrFieldErrors(name, v) ==
    IF IsStr(v) THEN <<>>
    ELSE <<Str(<<name, ": ", "Input should be a valid string">>)>>

TimeFieldErrors(name, v) ==
    IF ~IsStr(v) THEN StrFieldErrors(name, v)
    ELSE IF validate_iso8601(v.str) THEN <<>>
    ELSE <<Str(<<name, ": ", "Value error, Invalid ISO-8601 datetime: ", v.str>>)>>

AttendeesErrors(attendees) ==
    IF ~IsList(attendees)
    THEN <<Str(<<"attendees", ": ", "Input should be a valid list">>)>>
    ELSE LET items == attendees.list
             bad == SelectSeq([i \in DOMAIN items |-> i], LAMBDA i : ~IsStr(items[i]))
         IN  IF bad # <<>>
             THEN [k \in DOMAIN bad |->
                      Str(<<"attendees." \o ToString(bad[k] - 1), ": ",
                            "Input should be a valid string">>)]
             ELSE LET r == validate_attendees([i \in DOMAIN items |-> Chars(items[i])])
                  IN  IF r.rejected
                      THEN <<Str(<<"attendees", ": ",
                                   "Value error, Invalid email format: ">> \o r.email)>>
                      ELSE <<>>

\* hashlib.sha256(idempotency_key.encode()).hexdigest()[:16]: a text that
\* differs for keys that differ
Sha256Hex(idempotency_key) == ToString(idempotency_key)

\* str(v) inside an f-string
Format(v) ==
    CASE "str" \in DOMAIN v -> v.str
      [] "chars" \in DOMAIN v -> v.chars
      [] "int" \in DOMAIN v -> v.int
      [] OTHER -> v.list

\* IntentService.validate_calendar_intent: the missing-field return, the
\* pydantic errors, the validated intent, or the exception that leaves the
\* method at attendees[0] when attendees is a number.  The payloads leave
\* description, timezone and send_email to their defaults.
required_fields == <<"title", "start_time", "end_time", "attendee_email">>

ValidationResult(is_valid, intent, errors, raw_input_) ==
    [is_valid |-> is_valid, intent |-> intent, errors |-> errors,
     raw_input |-> raw_input_]

\* tool_args.get("intent_id"), None counted as the empty str
SuppliedIntentIdIgnored(tool_args) == PyStr("")
SuppliedIntentId(tool_args) == DictGet(tool_args, "intent_id", PyStr(""))

validate_calendar_intentAcceptsAll(tool_args) ==
    ValidationResult(TRUE, [intent_id |-> "a"], <<>>, tool_args)
validate_calendar_intent(tool_args) ==
    LET missing_fields ==
            SelectSeq(required_fields,
                      LAMBDA field : field \notin DOMAIN tool_args
                                        \/ ~Truthy(tool_args[field]))
    IN  IF missing_fields # <<>>
        THEN ValidationResult(FALSE, Nil,
                 <<Str(<<"Missing required fields", ": ">>
                          \o Join([i \in DOMAIN missing_fields |-> <<missing_fields[i]>>],
                                  ", "))>>,
                 tool_args)
        ELSE
        LET given == DictGet(tool_args, "attendees", PyList(<<>>))
            attendees == IF ~Truthy(given) THEN PyList(<<tool_args.attendee_email>>)
                         ELSE given
        IN  IF ~IsList(attendees) /\ ~IsStr(attendees)
            THEN [raised |-> "TypeError"]
            ELSE
            LET first == IF IsList(attendees) THEN Format(attendees.list[1])
                         ELSE <<Chars(attendees)[1]>>
                idempotency_key == <<Format(tool_args.title), "|",
                                     Format(tool_args.start_time), "|",
                                     Format(tool_args.end_time), "|", first>>
                supplied == SuppliedIntentId(tool_args)
                intent_id == IF Truthy(supplied) THEN supplied
                             ELSE PyStr(Sha256Hex(idempotency_key))
                errors == StrFieldErrors("title", tool_args.title)
                            \o TimeFieldErrors("start_time", tool_args.start_time)
                            \o TimeFieldErrors("end_time", tool_args.end_time)
                            \o AttendeesErrors(attendees)
                            \o StrFieldErrors("intent_id", intent_id)
            IN  IF errors # <<>>
                THEN ValidationResult(FALSE, Nil, errors, tool_args)
                ELSE ValidationResult(TRUE,
                        [title |-> tool_args.title.str,
                         start_time |-> tool_args.start_time.str,
                         end_time |-> tool_args.end_time.str,
                         attendees |-> validate_attendees(
                             [i \in DOMAIN attendees.list |->
                                 Chars(attendees.list[i])]).validated,
                         intent_id |-> intent_id.str],
                        <<>>, tool_args)

\* Whether validate_calendar_intent was left by an exception
Raises(v) == "raised" \in DOMAIN v

\* STEP 1 and STEP 2 of _handle_create_appointment on each payload: what
\* parse_tool_call_safely returns, and for the parsed ones what
\* validate_calendar_intent does
ParsedArgs == [a \in CreateArgs |-> parse_tool_call_safely(a)]
ValidatedArgs ==
    [a \in {b \in CreateArgs : ParsedArgs[b].error = Nil} |->
        validate_calendar_intent(ParsedArgs[a].data)]

\* A call that reaches STEP 3 of create_appointment; the others are plain
ReachesLedger(c) ==
    /\ c.name = "create_appointment"
    /\ ParsedArgs[c.args].error = Nil
    /\ ~Raises(ValidatedArgs[c.args])
    /\ ValidatedArgs[c.args].is_valid

\* The intent_id of the intent such a call is validated to
IntentIdOf(c) == ValidatedArgs[c.args].intent.intent_id

\* "; ".join(errors)
JoinErrors(errors) ==
    Str(Join([i \in DOMAIN errors |-> errors[i].text], "; "))

\* The dicts _handle_create_appointment returns (of the success reply, the
\* fields that echo the intent are left out)
ParseFailure(parse_error) ==
    [success |-> FALSE,
     error |-> Str(<<"Invalid tool arguments: ">> \o parse_error.text),
     should_retry |-> TRUE,
     clarification |-> "Please provide valid appointment details."]

ValidationFailure(v) ==
    [success |-> FALSE,
     error |-> JoinErrors(v.errors),
     should_retry |-> TRUE,
     clarification |-> Str(<<"VALIDATION_FAILED: Cannot create appointment. ">>
                            \o JoinErrors(v.errors).text),
     missing_fields |-> [i \in 1..Len(v.errors) |-> v.errors[i].text[1]]]

DuplicateReplyUnflagged(intent_id) ==
    [success |-> TRUE,
     message |-> "This appointment was already created.",
     appointment_id |-> intent_id]
DuplicateReply(intent_id) ==
    [success |-> TRUE,
     is_duplicate |-> TRUE,
     message |-> "This appointment was already created.",
     appointment_id |-> intent_id]

ExecutionFailureNoRetry(execution_result, dbid) ==
    [success |-> FALSE,
     error |-> Str(<<"Failed to create appointment">>),
     should_retry |-> FALSE,
     appointment_id |-> dbid]
ExecutionFailure(execution_result, dbid) ==
    [success |-> FALSE,
     error |-> IF execution_result.error \in {Nil, NoText}
               THEN Str(<<"Failed to create appointment">>)
               ELSE execution_result.error,
     should_retry |-> TRUE,
     clarification |-> "I was unable to send the calendar invite. The appointment was saved but please try again.",
     appointment_id |-> dbid]

SuccessReply(intent_id, execution_result, dbid) ==
    [success |-> TRUE,
     message |-> "Appointment created and confirmation email sent",
     appointment_id |-> IF dbid # None THEN dbid ELSE intent_id,
     calendar_link |-> IF execution_result.zapier_response.kind = "dict"
                          /\ execution_result.zapier_response.raw # None
                       THEN "calendar_link" ELSE None,
     email_sent |-> TRUE]

\* handle_tool_call's `except Exception`
InternalFailureRaised(e) == [raised |-> TRUE, error |-> e]
InternalFailure(e) ==
    [success |-> FALSE, error |-> e, should_retry |-> TRUE]

\* The unknown-tool branch
UnknownToolRetried(tool_name) ==
    [success |-> FALSE,
     error |-> Str(<<"Unknown tool: ", tool_name>>),
     should_retry |-> TRUE]
UnknownTool(tool_name) ==
    [success |-> FALSE,
     error |-> Str(<<"Unknown tool: ", tool_name>>),
     should_retry |-> FALSE]

NoGet == Str(<<"'NoneType' object has no attribute 'get'">>)
NotSubscriptable == Str(<<"'int' object is not subscriptable">>)
ListNoGet == Str(<<"'list' object has no attribute 'get'">>)

\* _handle_escalate_call, _handle_complete_intake, _handle_end_call
HandleEscalateCall(tool_args) ==
    IF tool_args.kind # "dict" THEN InternalFailure(NoGet)
    ELSE [success |-> TRUE,
          message |-> "Call escalated to human agent",
          urgency |-> DictGet(tool_args, "urgency", "medium")]

HandleCompleteIntake(tool_args) ==
    [success |-> TRUE, message |-> "Intake completed successfully"]

HandleEndCallNoReason(tool_args) ==
    [success |-> TRUE, message |-> "Call ended"]
HandleEndCall(tool_args) ==
    IF tool_args.kind # "dict" THEN InternalFailure(NoGet)
    ELSE [success |-> TRUE,
          message |-> "Call ended",
          reason |-> DictGet(tool_args, "reason", "completed")]

\* except Exception around the storage write (STEP 4): a failed write is
\* logged and the pipeline goes on
SaveFailureAbortsPipeline == TRUE
SaveFailureAborts == FALSE

\* handle_tool_call returns the dict r
Return(t, r) ==
    /\ hresult' = [hresult EXCEPT ![t] = r]
    /\ hpc' = [hpc EXCEPT ![t] = "returned"]

\* STEP 6 or the failure return, with the ExecutionResult er of STEP 5:
\* zapier_response.get of a JSON array raises, which handle_tool_call catches
Reply(t, er, dbid) ==
    Return(t, IF ~er.success THEN ExecutionFailure(er, dbid)
              ELSE IF er.zapier_response.kind = "list" THEN InternalFailure(ListNoGet)
              ELSE SuccessReply(IntentKey(tintent'[t]), er, dbid))

\* What follows `await execute_calendar_intent` in the same step: nothing
\* while the call is suspended; the storage update when the write had
\* succeeded and the result is a success; else the return
AfterExecute(t, dbid) ==
    IF pc'[t] # "done"
    THEN /\ hpc' = [hpc EXCEPT ![t] = "executing"]
         /\ UNCHANGED hresult
    ELSE IF dbid # None /\ result'[t].success
    THEN /\ hpc' = [hpc EXCEPT ![t] = "db_confirm"]
         /\ UNCHANGED hresult
    ELSE Reply(t, result'[t], dbid)

\* handle_tool_call(tool_name, tool_args) up to its first suspension: the
\* routing, and of create_appointment STEP 1 to 3.  Tasks are
\* interchangeable, so they start in the order of their numbers.
HandleToolCall(t, c) ==
    /\ hpc[t] = "idle"
    /\ \A u \in Tasks : u < t => hpc[u] # "idle"
    /\ ReachesLedger(c)
          \/ Cardinality({u \in Tasks : hpc[u] # "idle" /\ ~ReachesLedger(tool[u])})
                < MaxPlainCalls
    /\ tool' = [tool EXCEPT ![t] = c]
    /\ IF c.name = "create_appointment"
       THEN LET p == ParsedArgs[c.args]
                v == ValidatedArgs[c.args]
            IN  IF p.error # Nil
                THEN Return(t, ParseFailure(p.error)) /\ UNCHANGED checked
                ELSE IF Raises(v)
                THEN Return(t, InternalFailure(NotSubscriptable)) /\ UNCHANGED checked
                ELSE IF ~v.is_valid
                THEN Return(t, ValidationFailure(v)) /\ UNCHANGED checked
                ELSE /\ checked' = [checked EXCEPT ![t] =
                            IF was_executed(v.intent.intent_id) THEN "true" ELSE "false"]
                     /\ IF was_executed(v.intent.intent_id)
                        THEN Return(t, DuplicateReply(v.intent.intent_id))
                        ELSE /\ hpc' = [hpc EXCEPT ![t] = "db_save"]
                             /\ UNCHANGED hresult
       ELSE /\ Return(t, CASE c.name = "escalate_call" -> HandleEscalateCall(c.args)
                           [] c.name = "complete_intake" -> HandleCompleteIntake(c.args)
                           [] c.name = "end_call" -> HandleEndCall(c.args)
                           [] OTHER -> UnknownTool(c.name))
            /\ UNCHANGED checked
    /\ UNCHANGED <<storage, db_appointment_id>>
    /\ UNCHANGED evars
    /\ UNCHANGED ovars

\* STEP 4 ends: the row with id = intent_id is committed, or the write fails
\* (the database is down, or a row with this id exists); then STEP 5 calls
\* execute_calendar_intent, which runs on to its first suspension.
DbSave(t, ok) ==
    /\ hpc[t] = "db_save"
    /\ LET intent_id == IntentIdOf(tool[t])
           saved == ok /\ storage[intent_id] = "none"
           dbid == IF saved THEN intent_id ELSE None
       IN  /\ storage' = IF saved THEN [storage EXCEPT ![intent_id] = "scheduled"]
                         ELSE storage
           /\ db_appointment_id' = [db_appointment_id EXCEPT ![t] = dbid]
           /\ IF ~saved /\ SaveFailureAborts
              THEN /\ Return(t, InternalFailure(Str(<<"storage write failed">>)))
                   /\ UNCHANGED evars
              ELSE /\ execute_calendar_intent(t, intent_id)
                   /\ AfterExecute(t, dbid)
    /\ UNCHANGED <<tool, checked>>
    /\ UNCHANGED ovars

\* The task gets the lock it waited for; when the record makes it a
\* duplicate, execute_calendar_intent returns in the same step
ExecuteResumes(t) ==
    /\ hpc[t] = "executing"
    /\ LockAcquired(t)
    /\ AfterExecute(t, db_appointment_id[t])
    /\ UNCHANGED <<tool, storage, db_appointment_id, checked>>
    /\ UNCHANGED ovars

\* client.post answers or raises and execute_calendar_intent returns
ExecuteReturns(t, o) ==
    /\ hpc[t] = "executing"
    /\ ClientPostReturns(t, o)
    /\ AfterExecute(t, db_appointment_id[t])
    /\ UNCHANGED <<tool, storage, db_appointment_id, checked>>
    /\ UNCHANGED ovars

\* The storage update after a successful execute ends: the row is confirmed,
\* or the update fails and is logged; then STEP 6
DbConfirm(t, ok) ==
    /\ hpc[t] = "db_confirm"
    /\ LET dbid == db_appointment_id[t]
       IN  /\ storage' = IF ok /\ storage[dbid] # "none"
                         THEN [storage EXCEPT ![dbid] = "confirmed"]
                         ELSE storage
           /\ Reply(t, result[t], dbid)
    /\ UNCHANGED <<tool, db_appointment_id, checked>>
    /\ UNCHANGED evars
    /\ UNCHANGED ovars

\* The task running handle_tool_call is cancelled at a suspension point
HandlerCancelled(t) ==
    /\ hpc[t] \in {"db_save", "executing", "db_confirm"}
    /\ IF hpc[t] = "executing"
       THEN Cancelled(t)
       ELSE /\ cancels < MaxCancels
            /\ cancels' = cancels + 1
            /\ UNCHANGED <<webhook_url, executions, locks, lockObjs, pc, tintent,
                           tlock, result, webhookCalls, resets, purged, arrival,
                           concurrent, seen, called, outcome, afterReset>>
    /\ hpc' = [hpc EXCEPT ![t] = "cancelled"]
    /\ UNCHANGED <<tool, hresult, storage, db_appointment_id, checked>>
    /\ UNCHANGED ovars

\* What the webhook answers to the orchestrator's calls
HandlerOutcomes ==
    {Response(200, "json"), Response(202, "text"), Response(200, "json_array"),
     Response(500, "text"), [kind |-> "raise", exc |-> "TimeoutException"]}

HandlerNext ==
    \/ \E t \in Tasks, c \in ToolCalls : HandleToolCall(t, c)
    \/ \E t \in Tasks, ok \in BOOLEAN : DbSave(t, ok)
    \/ \E t \in Tasks : ExecuteResumes(t)
    \/ \E t \in Tasks, o \in HandlerOutcomes : ExecuteReturns(t, o)
    \/ \E t \in Tasks, ok \in BOOLEAN : DbConfirm(t, ok)
    \/ \E t \in Tasks : HandlerCancelled(t)
    \/ \E k \in Keys : resets < MaxHandlerResets /\ ResetExecution(k)

\* Tool calls arriving at the orchestrator
HandlerSpec == Init /\ [][HandlerNext]_vars

\* The orchestrator over a storage collaborator whose transactions fail for
\* no reason of their own, with no call cancelled and no identity purged
HealthyStorageNext ==
    \/ \E t \in Tasks, c \in ToolCalls : HandleToolCall(t, c)
    \/ \E t \in Tasks : DbSave(t, TRUE)
    \/ \E t \in Tasks : ExecuteResumes(t)
    \/ \E t \in Tasks, o \in HandlerOutcomes : ExecuteReturns(t, o)
    \/ \E t \in Tasks : DbConfirm(t, TRUE)

HealthyStorageSpec == Init /\ [][HealthyStorageNext]_vars

HandlerTypeOK ==
    /\ \A t \in Tasks :
          hpc[t] \in {"idle", "db_save", "executing", "db_confirm", "returned",
                      "cancelled"}
    /\ \A k \in Keys : storage[k] \in {"none", "scheduled", "confirmed"}


\* ------------------------------------------------------------ IntentService
\* The payloads IntentService is given.  A dict carries any of the fields
\* title, start_time, end_time, attendee_email, attendees and intent_id, each
\* absent, empty, well-formed, malformed or of another type.
Field(name, values) == {<<>>} \cup {name :> v : v \in values}

TitleValues == {PyStr(""), PyStr("Checkup"), PyInt(5)}
StartValues == {PyStr(StartTime), PyStr(NoTime), PyStr(NaiveTime)}
EndValues == {PyStr(EndTime), PyStr(NaiveTime)}
EmailValues == {PyChars(<<>>), PyChars(PlainEmail), PyChars(ShoutedEmail),
                PyChars(InvalidEmail)}
AttendeesValues ==
    {PyList(<<>>), PyList(<<PyChars(PlainEmail)>>), PyList(<<PyChars(ShoutedEmail)>>),
     PyList(<<PyChars(OtherEmail), PyChars(PlainEmail)>>), PyInt(5)}
IntentIdValues == {PyStr(""), PyStr("a")}

DictPayloads ==
    {[kind |-> "dict"] @@ f1 @@ f2 @@ f3 @@ f4 @@ f5 @@ f6 :
        f1 \in Field("title", TitleValues),
        f2 \in Field("start_time", StartValues),
        f3 \in Field("end_time", EndValues),
        f4 \in Field("attendee_email", EmailValues),
        f5 \in Field("attendees", AttendeesValues),
        f6 \in Field("intent_id", IntentIdValues)}

\* The documents a str payload spells: nothing, no JSON, a JSON array, number
\* or null, and a JSON object
JsonDocs ==
    {[json |-> j] : j \in {"", "malformed", "list", "int", "NoneType"}}
        \cup {[json |-> "object", value |-> ValidArgs],
              [json |-> "object", value |-> [kind |-> "dict"]]}

RawInputs ==
    DictPayloads
        \cup [kind : {"str"}, padded : BOOLEAN, doc : JsonDocs]
        \cup {[kind |-> "none"], [kind |-> "int"], [kind |-> "list"]}

IntentInit ==
    /\ webhook_url = TRUE
    /\ LedgerInit
    /\ use_redis = FALSE
    /\ StoreEmpty
    /\ raw_input \in RawInputs
    /\ iphase = "given"
    /\ parsed = Nil
    /\ validation = Nil

\* STEP 1 of the pipeline: parse_tool_call_safely(raw_data)
ParseStep ==
    /\ iphase = "given"
    /\ parsed' = parse_tool_call_safely(raw_input)
    /\ iphase' = "parsed"
    /\ UNCHANGED <<raw_input, validation>>
    /\ UNCHANGED evars
    /\ UNCHANGED hvars
    /\ UNCHANGED svars

\* STEP 2 of the pipeline: validate_calendar_intent(parsed_args)
ValidateStep ==
    /\ iphase = "parsed"
    /\ parsed.error = Nil
    /\ validation' = validate_calendar_intent(parsed.data)
    /\ iphase' = "validated"
    /\ UNCHANGED <<raw_input, parsed>>
    /\ UNCHANGED evars
    /\ UNCHANGED hvars
    /\ UNCHANGED svars

IntentNext == ParseStep \/ ValidateStep

IntentSpec == IntentInit /\ [][IntentNext]_vars

IntentTypeOK ==
    /\ raw_input \in RawInputs
    /\ iphase \in {"given", "parsed", "validated"}
    /\ iphase = "given" => parsed = Nil
    /\ iphase # "validated" <=> validation = Nil

\* ------------------------------------------------------------- StateService
\* The clock counts half days: the 24 hours of CallState._cleanup_interval
\* and the 86400 seconds of the Redis TTL are two ticks.
cleanup_interval == 2
RedisTtl == 2

ConversationPhase == {"greeting", "intake", "clarification", "escalation", "completed"}

\* A state dict is a function from its keys; d[key] = value
EmptyState == <<>>
SetKey(d, key, value) == (key :> value) @@ d

\* The state start_call stores, the phases update_phase is given, the item
\* add_transcript_item appends
InitialState(call_id) ==
    [call_id |-> call_id, org_id |-> "org", phase |-> "greeting",
     transcripts |-> <<>>, escalated |-> FALSE]
PhaseInputs == {"intake", "completed"}
TranscriptItem == [speaker |-> "user", text |-> "hello", timestamp |-> now]

\* state["phase"] = phase.value; state["updated_at"] = utcnow
PhaseUpdatedFromScratch(state, phase) ==
    SetKey(SetKey(EmptyState, "phase", phase), "updated_at", now)
PhaseUpdated(state, phase) ==
    SetKey(SetKey(state, "phase", phase), "updated_at", now)

\* The four keys mark_escalated sets, and updated_at
Escalated(state, reason, urgency) ==
    SetKey(SetKey(SetKey(SetKey(SetKey(state, "escalated", TRUE),
        "escalation_reason", reason), "escalation_urgency", urgency),
        "phase", "escalation"), "updated_at", now)

\* StateService.get_state: the dict of the backend in use, Nil for None
get_state(call_id) ==
    IF use_redis
    THEN IF redis[call_id] = Nil THEN Nil ELSE redis[call_id].value
    ELSE states[call_id]

\* StateService.get_phase
get_phase(call_id) ==
    IF get_state(call_id) = Nil \/ DOMAIN get_state(call_id) = {} THEN None
    ELSE DictGet(get_state(call_id), "phase", None)

\* "await self.get_state(call_id) or {}"
OrEmpty(state) == IF state = Nil THEN EmptyState ELSE state

\* What a write of a StateService call leaves in the history variables
Wrote(op, call_id, before, written) ==
    /\ lastop' = [op |-> op, call_id |-> call_id, before |-> before,
                  written |-> written]
    /\ touched' = [touched EXCEPT ![call_id] = now]
    /\ escalations' = [escalations EXCEPT ![call_id] =
                          IF op = "mark_escalated"
                          THEN [reason |-> written.escalation_reason,
                                urgency |-> written.escalation_urgency]
                          ELSE IF op = "update_phase" THEN @
                          ELSE Nil]

\* CallState.set_state (sets updated_at) or SETEX with the 24 hour TTL
Store(call_id, state) ==
    IF use_redis
    THEN /\ redis' = [redis EXCEPT ![call_id] =
                          [value |-> state, expires |-> now + RedisTtl]]
         /\ UNCHANGED states
    ELSE /\ states' = [states EXCEPT ![call_id] = SetKey(state, "updated_at", now)]
         /\ UNCHANGED redis

\* StateService.set_state(call_id, state): one write on either backend
SetState(call_id, state) ==
    /\ sops < MaxStoreOps
    /\ sops' = sops + 1
    /\ Store(call_id, state)
    /\ Wrote("set_state", call_id, EmptyState, state)
    /\ UNCHANGED <<use_redis, now, spc, sop, slocal>>
    /\ UNCHANGED evars /\ UNCHANGED hvars /\ UNCHANGED ivars

\* StateService.update_phase and mark_escalated on the in-memory backend:
\* get_state and set_state do not suspend, the call is one step
UpdatePhaseInMemory(call_id, phase) ==
    /\ ~use_redis
    /\ sops < MaxStoreOps
    /\ sops' = sops + 1
    /\ Store(call_id, PhaseUpdated(OrEmpty(states[call_id]), phase))
    /\ Wrote("update_phase", call_id, OrEmpty(states[call_id]),
             PhaseUpdated(OrEmpty(states[call_id]), phase))
    /\ UNCHANGED <<use_redis, now, spc, sop, slocal>>
    /\ UNCHANGED evars /\ UNCHANGED hvars /\ UNCHANGED ivars

MarkEscalatedInMemory(call_id, reason, urgency) ==
    /\ ~use_redis
    /\ sops < MaxStoreOps
    /\ sops' = sops + 1
    /\ Store(call_id, Escalated(OrEmpty(states[call_id]), reason, urgency))
    /\ Wrote("mark_escalated", call_id, OrEmpty(states[call_id]),
             Escalated(OrEmpty(states[call_id]), reason, urgency))
    /\ UNCHANGED <<use_redis, now, spc, sop, slocal>>
    /\ UNCHANGED evars /\ UNCHANGED hvars /\ UNCHANGED ivars

\* The same calls on Redis: the GET is answered, the coroutine is suspended
\* until then and again until its SETEX is carried out
RedisGet(t, op) ==
    /\ use_redis
    /\ spc[t] = "idle"
    /\ sops < MaxStoreOps
    /\ sops' = sops + 1
    /\ spc' = [spc EXCEPT ![t] = "got"]
    /\ sop' = [sop EXCEPT ![t] = op]
    /\ slocal' = [slocal EXCEPT ![t] = OrEmpty(get_state(op.call_id))]
    /\ UNCHANGED <<use_redis, states, redis, now, touched, escalations, lastop>>
    /\ UNCHANGED evars /\ UNCHANGED hvars /\ UNCHANGED ivars

RedisSetex(t) ==
    /\ use_redis
    /\ spc[t] = "got"
    /\ UNCHANGED <<use_redis, now, sops>>
    /\ LET written == IF sop[t].op = "update_phase"
                      THEN PhaseUpdated(slocal[t], sop[t].phase)
                      ELSE Escalated(slocal[t], sop[t].reason, sop[t].urgency)
       IN  /\ Store(sop[t].call_id, written)
           /\ Wrote(sop[t].op, sop[t].call_id, slocal[t], written)
    /\ spc' = [spc EXCEPT ![t] = "idle"]
    /\ sop' = [sop EXCEPT ![t] = Nil]
    /\ slocal' = [slocal EXCEPT ![t] = Nil]
    /\ UNCHANGED evars /\ UNCHANGED hvars /\ UNCHANGED ivars

\* StateService.delete_state
DeleteState(call_id) ==
    /\ sops < MaxStoreOps
    /\ sops' = sops + 1
    /\ IF use_redis
       THEN redis' = [redis EXCEPT ![call_id] = Nil] /\ UNCHANGED states
       ELSE states' = [states EXCEPT ![call_id] = Nil] /\ UNCHANGED redis
    /\ lastop' = [op |-> "delete_state"]
    /\ escalations' = [escalations EXCEPT ![call_id] = Nil]
    /\ UNCHANGED <<use_redis, now, spc, sop, slocal, touched>>
    /\ UNCHANGED evars /\ UNCHANGED hvars /\ UNCHANGED ivars

\* self._states[call_id]["transcripts"].append(item)
AppendedInFront(transcripts, item) == <<item>> \o transcripts
Appended(transcripts, item) == Append(transcripts, item)

\* CallState.add_transcript_item: creates the state or appends to it, and
\* leaves updated_at as it is
AddTranscriptItem(call_id) ==
    /\ ~use_redis
    /\ sops < MaxStoreOps
    /\ sops' = sops + 1
    /\ LET state == IF states[call_id] = Nil THEN [transcripts |-> <<>>]
                    ELSE IF "transcripts" \notin DOMAIN states[call_id]
                    THEN SetKey(states[call_id], "transcripts", <<>>)
                    ELSE states[call_id]
       IN  states' = [states EXCEPT ![call_id] =
                         SetKey(state, "transcripts",
                                Appended(state.transcripts, TranscriptItem))]
    /\ lastop' = [op |-> "add_transcript_item"]
    /\ touched' = [touched EXCEPT ![call_id] = now]
    /\ UNCHANGED <<use_redis, redis, now, spc, sop, slocal, escalations>>
    /\ UNCHANGED evars /\ UNCHANGED hvars /\ UNCHANGED ivars

\* CallState.cleanup_old_states: drops the states whose updated_at is before
\* the cutoff; a state without updated_at is passed over
TooOld(state) ==
    /\ "updated_at" \in DOMAIN state
    /\ state.updated_at < now - cleanup_interval

CleanupOldStates ==
    /\ ~use_redis
    /\ \E c \in CallIds : states[c] # Nil /\ TooOld(states[c])
    /\ states' = [c \in CallIds |->
                     IF states[c] # Nil /\ TooOld(states[c]) THEN Nil ELSE states[c]]
    /\ lastop' = [op |-> "cleanup_old_states"]
    /\ escalations' = [c \in CallIds |->
                          IF states'[c] = Nil THEN Nil ELSE escalations[c]]
    /\ UNCHANGED <<use_redis, redis, now, spc, sop, slocal, sops, touched>>
    /\ UNCHANGED evars /\ UNCHANGED hvars /\ UNCHANGED ivars

\* Half a day passes; Redis drops the keys whose TTL has run out
Tick ==
    /\ now < MaxTime
    /\ now' = now + 1
    /\ redis' = [c \in CallIds |->
                    IF redis[c] # Nil /\ redis[c].expires <= now + 1 THEN Nil
                    ELSE redis[c]]
    /\ escalations' = [c \in CallIds |->
                          IF use_redis /\ redis'[c] = Nil THEN Nil ELSE escalations[c]]
    /\ lastop' = IF redis' # redis THEN [op |-> "expire"] ELSE lastop
    /\ UNCHANGED <<use_redis, states, spc, sop, slocal, sops, touched>>
    /\ UNCHANGED evars /\ UNCHANGED hvars /\ UNCHANGED ivars

StoreInit ==
    /\ webhook_url = TRUE
    /\ LedgerInit
    /\ IntentIdle
    /\ use_redis \in BOOLEAN
    /\ StoreEmpty

RedisOps ==
    [op : {"update_phase"}, call_id : CallIds, phase : PhaseInputs]
        \cup [op : {"mark_escalated"}, call_id : CallIds,
              reason : {"caller upset"}, urgency : {"high"}]

StoreNext ==
    \/ \E c \in CallIds : SetState(c, InitialState(c))
    \/ \E c \in CallIds, p \in PhaseInputs : UpdatePhaseInMemory(c, p)
    \/ \E c \in CallIds : MarkEscalatedInMemory(c, "caller upset", "high")
    \/ \E t \in Clients, op \in RedisOps : RedisGet(t, op)
    \/ \E t \in Clients : RedisSetex(t)
    \/ \E c \in CallIds : DeleteState(c)
    \/ \E c \in CallIds : AddTranscriptItem(c)
    \/ CleanupOldStates
    \/ Tick

StoreSpec == StoreInit /\ [][StoreNext]_vars

\* The cleanup runs whenever it has something to drop, and time goes on
StoreFairSpec == StoreSpec /\ WF_vars(CleanupOldStates) /\ WF_vars(Tick)

StoreTypeOK ==
    /\ use_redis \in BOOLEAN
    /\ now \in 0..MaxTime
    /\ sops \in 0..MaxStoreOps
    /\ \A t \in Clients : spc[t] \in {"idle", "got"}
    /\ use_redis => \A c \in CallIds : states[c] = Nil
    /\ ~use_redis => \A c \in CallIds : redis[c] = Nil

\* ------------------------------------------------------------- properties
Started == {t \in Tasks : pc[t] # "idle"}
TasksOf(k) == {t \in Started : tkey(t) = k}
InProgress(k) == {t \in TasksOf(k) : pc[t] \in {"waiting", "webhook"}}
InFlight(k) == {t \in TasksOf(k) : pc[t] = "webhook"}
Returned(k, s) == {t \in TasksOf(k) : pc[t] = "done" /\ result[t].status = s}

\* N >= 1 attempts for one identity, all submitted before any of them ended,
\* all returned, the identity never purged
ConcurrentBatchDone(k) ==
    /\ TasksOf(k) # {}
    /\ ~purged[k]
    /\ \A t \in TasksOf(k) : pc[t] = "done" /\ concurrent[t]

\* The step in which task t passes the lock and makes the duplicate check
ServeStep(t) == seen[t] = "unserved" /\ seen'[t] # "unserved"

\* The step in which the call of task t returns
ReturnStep(t) == pc[t] # "done" /\ pc'[t] = "done"

ExternalCallFailed(o) ==
    \/ o.kind \in {"raise", "unconfigured"}
    \/ o.kind = "response" /\ o.status_code \notin {200, 201, 202}

\* C1 as the spec states it (with a destination configured): N concurrent
\* attempts for one identity, no prior record, no purge: exactly one attempt
\* invokes the webhook and the other N-1 return DUPLICATE.
C1_ExactlyOneCall ==
    \A k \in Keys :
        (webhook_url /\ ConcurrentBatchDone(k))
        => /\ Cardinality({t \in TasksOf(k) : called[t]}) = 1
           /\ webhookCalls[k] = 1
           /\ Cardinality(Returned(k, DUPLICATE)) = Cardinality(TasksOf(k)) - 1

\* C1, amended: of N concurrent attempts for one identity (no prior record, no
\* purge) at most one returns EXECUTED; every attempt returns DUPLICATE or
\* makes its own external call, so an attempt served after one that ended
\* FAILED invokes the webhook again: the webhook calls are the EXECUTED plus
\* the FAILED results (none without a destination) and the DUPLICATE results
\* are the rest.  When no call fails there is exactly one webhook call and
\* N-1 DUPLICATE results.
C1_OneCallUnlessFailed ==
    \A k \in Keys :
        ConcurrentBatchDone(k)
        => LET n == Cardinality(TasksOf(k))
               ex == Cardinality(Returned(k, EXECUTED))
               fl == Cardinality(Returned(k, FAILED))
               du == Cardinality(Returned(k, DUPLICATE))
           IN  /\ ex <= 1
               /\ du = n - (ex + fl)
               /\ Cardinality({t \in TasksOf(k) : called[t]}) = webhookCalls[k]
               /\ webhookCalls[k] = IF webhook_url THEN ex + fl ELSE 0
               /\ fl = 0 => (webhookCalls[k] = 1 /\ du = n - 1)

C1_Witness ==
    \E k \in Keys :
        /\ ConcurrentBatchDone(k)
        /\ Cardinality(TasksOf(k)) >= 2
        /\ webhookCalls[k] = 1
        /\ Cardinality(Returned(k, DUPLICATE)) = Cardinality(TasksOf(k)) - 1

\* C2: absent a purge of the identity, at most one attempt per identity is
\* between writing EXECUTING and the return of its webhook call; while it is,
\* the record is EXECUTING and the identity's lock is held.
C2_OneInFlight ==
    \A k \in Keys :
        ~purged[k]
        => /\ Cardinality(InFlight(k)) <= 1
           /\ \A t \in InFlight(k) :
                 /\ StatusOf(k) = EXECUTING
                 /\ tlock[t] = locks[k]
                 /\ lockObjs[tlock[t]].locked

C2_Witness ==
    \E k \in Keys :
        /\ ~purged[k]
        /\ InFlight(k) # {}
        /\ \E t \in TasksOf(k) : pc[t] = "waiting"

\* C3 as the spec states it: an attempt that arrives while another attempt
\* for the identity is EXECUTING, or after one is EXECUTED, returns DUPLICATE
\* and never invokes the webhook (no purge of the identity).
C3_ArrivalDecides ==
    \A t \in Tasks :
        (pc[t] = "done" /\ ~purged[tkey(t)] /\ arrival[t] \in {EXECUTING, EXECUTED})
        => (result[t].status = DUPLICATE /\ ~called[t])

\* C3, amended: what an attempt returns is decided by the record it finds
\* when it gets the lock.  Absent a purge, an attempt that arrives after one
\* is EXECUTED returns DUPLICATE without a webhook call; one that arrives
\* while another is EXECUTING returns DUPLICATE without a webhook call unless
\* the in-flight attempt ended FAILED, and then it invokes the webhook itself.
C3_RecordAtLockDecides ==
    \A t \in Tasks :
        (pc[t] = "done" /\ ~purged[tkey(t)] /\ arrival[t] \in {EXECUTING, EXECUTED})
        => /\ arrival[t] = EXECUTED => seen[t] = EXECUTED
           /\ seen[t] \in {EXECUTING, EXECUTED, FAILED}
           /\ seen[t] \in {EXECUTING, EXECUTED}
                 => (result[t].status = DUPLICATE /\ ~called[t])
           /\ seen[t] = FAILED
                 => (result[t].status \in {EXECUTED, FAILED} /\ called[t])

C3_Witness ==
    \E t \in Tasks :
        /\ pc[t] = "done"
        /\ ~purged[tkey(t)]
        /\ arrival[t] = EXECUTING
        /\ result[t].status = DUPLICATE

\* C4 as the spec states it: an execute that finds the record FAILED (an
\* earlier attempt failed and no reset came in between) is deduplicated: it
\* returns DUPLICATE and makes no webhook call.
C4_FailedStillDeduped ==
    \A t \in Tasks :
        seen[t] = FAILED
        => /\ ~called[t]
           /\ pc[t] = "done" => result[t].status = DUPLICATE

\* C4, amended: FAILED is not deduplicated.  An execute that finds the record
\* FAILED runs again without any purge: it invokes the webhook when a
\* destination is configured and ends EXECUTED or FAILED, never DUPLICATE.
C4_FailedIsRetried ==
    \A t \in Tasks :
        seen[t] = FAILED
        => /\ webhook_url => called[t]
           /\ pc[t] = "done" => result[t].status \in {EXECUTED, FAILED}

C4_Witness ==
    \E t \in Tasks :
        /\ seen[t] = FAILED
        /\ ~purged[tkey(t)]
        /\ called[t]
        /\ pc[t] = "done"
        /\ result[t].status = EXECUTED

\* C5: an execute that holds the lock and finds the identity's record
\* EXECUTING or EXECUTED returns DUPLICATE with success and is_duplicate set,
\* makes no webhook call and leaves the ledger as it is.
C5_DuplicateReturn ==
    [][\A t \in Tasks :
          (ServeStep(t) /\ StatusOf(IntentKey(tintent'[t])) \in {EXECUTING, EXECUTED})
          => /\ pc'[t] = "done"
             /\ result'[t].status = DUPLICATE
             /\ result'[t].success
             /\ result'[t].is_duplicate
             /\ ~called'[t]
             /\ webhookCalls' = webhookCalls
             /\ executions' = executions]_vars

C5_Witness ==
    \E t \in Tasks :
        /\ pc[t] = "done"
        /\ seen[t] = EXECUTED
        /\ result[t] = DuplicateResult(tkey(t))
        /\ executions[tkey(t)].status = EXECUTED
        /\ webhookCalls[tkey(t)] = 1

\* C6: after reset_execution on an EXECUTED record the ledger holds no record
\* for the identity and was_executed is false, and the next execute served
\* for the identity is no duplicate: it writes EXECUTING and invokes the
\* webhook.
C6_PurgeThenFreshCall ==
    [][/\ \A k \in Keys :
             (resets' # resets /\ StatusOf(k) = EXECUTED /\ executions'[k] # executions[k])
             => (executions'[k] = Nil /\ ~was_executed(k)')
       /\ \A t \in Tasks :
             (ServeStep(t) /\ afterReset[IntentKey(tintent'[t])])
             => /\ pc'[t] = "webhook"
                /\ executions'[IntentKey(tintent'[t])].status = EXECUTING
                /\ webhookCalls'[IntentKey(tintent'[t])]
                      = webhookCalls[IntentKey(tintent'[t])] + 1]_vars

\* C7: whenever no execute call for an identity is in progress, the
\* identity's record is not EXECUTING.
C7_NoStaleExecuting ==
    \A k \in Keys : InProgress(k) = {} => StatusOf(k) # EXECUTING

\* C8: a lock is locked only while a call is inside its body (a call that has
\* returned holds no lock), and every attempt waiting for the lock gets it
\* and ends.
C8_LockReleased ==
    /\ [](\A i \in 1..Len(lockObjs) :
             lockObjs[i].locked => \E t \in Tasks : tlock[t] = i /\ pc[t] = "webhook")
    /\ \A t \in Tasks : (pc[t] = "waiting") ~> (pc[t] \in {"done", "cancelled"})

C8_Witness ==
    \E t, u \in Tasks :
        /\ pc[t] = "done"
        /\ pc[u] = "waiting"
        /\ tlock[u] = tlock[t]
        /\ lockObjs[tlock[u]].woken
        /\ ~lockObjs[tlock[u]].locked

\* C9: identities are independent.  A step of an attempt for one identity
\* changes no other identity's record or call count, and an execute for an
\* identity with no attempt of its own in progress and no EXECUTING or
\* EXECUTED record goes straight to EXECUTING and the webhook, whatever
\* attempts for other identities are in flight.
C9_Independent ==
    [][\A t \in Tasks :
          LET k == IntentKey(tintent'[t])
          IN  /\ pc'[t] # pc[t]
                 => \A k2 \in Keys \ {k} :
                       /\ executions'[k2] = executions[k2]
                       /\ webhookCalls'[k2] = webhookCalls[k2]
              /\ (/\ pc[t] = "idle" /\ pc'[t] # "idle"
                  /\ webhook_url
                  /\ \A u \in Tasks \ {t} :
                        (pc[u] \in {"waiting", "webhook"}) => tkey(u) # k
                  /\ StatusOf(k) \notin {EXECUTING, EXECUTED})
                 => /\ pc'[t] = "webhook"
                    /\ executions'[k].status = EXECUTING
                    /\ webhookCalls'[k] = webhookCalls[k] + 1]_vars

C9_Witness ==
    \E t, u \in Tasks :
        /\ pc[t] = "webhook"
        /\ pc[u] = "webhook"
        /\ tkey(t) # tkey(u)
        /\ ~purged[tkey(t)]
        /\ ~purged[tkey(u)]

\* C10 as the spec states it: on any failure of the external call the record
\* is written FAILED with a non-empty error text and the call returns
\* success=false; without a destination no request is made.
C10_NonEmptyError ==
    [][\A t \in Tasks :
          (ReturnStep(t) /\ ExternalCallFailed(outcome'[t]))
          => /\ executions'[tkey(t)'] = result'[t]
             /\ result'[t].status = FAILED
             /\ ~result'[t].success
             /\ result'[t].error # Nil
             /\ result'[t].error # NoText
             /\ outcome'[t].kind = "unconfigured"
                   => (~called'[t] /\ webhookCalls' = webhookCalls)]_vars

\* C10, amended: on any failure of the external call the record is written
\* FAILED with str(e) as its error text and the call returns success=false.
\* The text is non-empty for a non-success status and for an unconfigured
\* destination; for a timeout it is the empty string.  Without a destination
\* no request is made.
C10_FailedWithStrOfError ==
    [][\A t \in Tasks :
          (ReturnStep(t) /\ ExternalCallFailed(outcome'[t]))
          => /\ executions'[tkey(t)'] = result'[t]
             /\ result'[t].status = FAILED
             /\ ~result'[t].success
             /\ result'[t].error # Nil
             /\ outcome'[t].kind \in {"response", "unconfigured"}
                   => result'[t].error # NoText
             /\ (outcome'[t].kind = "raise" /\ outcome'[t].exc = "TimeoutException")
                   => result'[t].error = NoText
             /\ outcome'[t].kind = "unconfigured"
                   => (~called'[t] /\ webhookCalls' = webhookCalls)]_vars

C10_Witness ==
    \E t, u \in Tasks :
        /\ pc[t] = "done"
        /\ outcome[t].kind = "response"
        /\ result[t].status = FAILED
        /\ executions[tkey(t)] = result[t]
        /\ pc[u] = "done"
        /\ outcome[u].kind = "raise"
        /\ result[u].status = FAILED

\* C11: a webhook response is a success exactly when its status is 200, 201
\* or 202: the record becomes EXECUTED with the response payload, a body that
\* is not JSON wrapped as {status: accepted, raw: body}; any other status
\* makes the record FAILED with the response body in the error text.
C11_StatusClassifies ==
    [][\A t \in Tasks :
          (ReturnStep(t) /\ outcome'[t].kind = "response")
          => LET o == outcome'[t]
                 r == executions'[tkey(t)]
             IN  /\ r = result'[t]
                 /\ r.status \in {EXECUTED, FAILED}
                 /\ (r.status = EXECUTED) <=> (o.status_code \in {200, 201, 202})
                 /\ r.status = EXECUTED
                       => /\ r.success
                          /\ r.error = Nil
                          /\ r.zapier_response =
                                CASE o.body = "json" -> [kind |-> "dict", raw |-> "json"]
                                  [] o.body = "json_array" ->
                                        [kind |-> "list", raw |-> "json_array"]
                                  [] OTHER -> [kind |-> "accepted", raw |-> o.body]
                 /\ r.status = FAILED
                       => /\ ~r.success
                          /\ r.error = Str(<<"Zapier returned", o.status_code, o.body>>)]_vars

C11_Witness ==
    \E t, u \in Tasks :
        /\ pc[t] = "done"
        /\ outcome[t] = Response(202, "text")
        /\ result[t].status = EXECUTED
        /\ result[t].zapier_response = [kind |-> "accepted", raw |-> "text"]
        /\ pc[u] = "done"
        /\ outcome[u] = Response(500, "text")
        /\ result[u].status = FAILED

\* The step in which task t enters handle_tool_call
StartStep(t) == hpc[t] = "idle" /\ hpc'[t] # "idle"

\* The step in which handle_tool_call of task t returns
HandlerReturnStep(t) == hpc[t] # "returned" /\ hpc'[t] = "returned"

HasField(r, f) == f \in DOMAIN r

\* C12: was_executed(identity) is true exactly when the ledger holds a record
\* for the identity with status EXECUTED (or DUPLICATE), false when there is
\* no record and when the record is EXECUTING or FAILED, and the call leaves
\* the ledger as it is.
C12_WasExecuted ==
    [][\A t \in Tasks :
          (checked[t] = "unchecked" /\ checked'[t] # "unchecked")
          => LET st == StatusOf(IntentIdOf(tool'[t]))
             IN  /\ (checked'[t] = "true") <=> (st \in {EXECUTED, DUPLICATE})
                 /\ st \in {"none", EXECUTING, FAILED} => checked'[t] = "false"
                 /\ executions' = executions
                 /\ locks' = locks]_vars

C12_Witness ==
    \E t, u, w \in Tasks :
        /\ checked[t] = "true"
        /\ checked[u] = "false"
        /\ arrival[u] = "none"
        /\ checked[w] = "false"
        /\ arrival[w] = EXECUTING

\* The one payload with every required field, ISO-8601 times and a
\* well-formed attendee address
WellFormed(c) == c.name = "create_appointment" /\ c.args = ValidArgs

\* C13: a create_appointment call whose arguments fail to parse or fail
\* validation returns success=false with should_retry=true at once and
\* writes no ledger record, no storage row and makes no webhook call;
\* execute_calendar_intent is only ever called by a task whose arguments
\* passed both.
C13_OnlyValidatedIntents ==
    [][/\ \A t \in Tasks :
             (StartStep(t) /\ tool'[t].name = "create_appointment"
                 /\ ~WellFormed(tool'[t]))
             => /\ hpc'[t] = "returned"
                /\ hresult'[t].success = FALSE
                /\ hresult'[t].should_retry = TRUE
                /\ executions' = executions
                /\ locks' = locks
                /\ storage' = storage
                /\ webhookCalls' = webhookCalls
       /\ \A t \in Tasks :
             (pc'[t] # "idle" \/ db_appointment_id'[t] # None)
                => WellFormed(tool'[t])]_vars

C13_Witness ==
    \E t, u \in Tasks :
        /\ hpc[t] = "returned"
        /\ tool[t].name = "create_appointment"
        /\ ~WellFormed(tool[t])
        /\ hresult[t].success = FALSE
        /\ hresult[t].should_retry = TRUE
        /\ pc[t] = "idle"
        /\ called[u]
        /\ t < u

\* C14: when was_executed is true for the validated intent, create_appointment
\* returns success=true, is_duplicate=true and appointment_id = identity at
\* once, with no storage write, no execute call and no webhook call, the
\* ledger unchanged.
C14_DuplicateShortCut ==
    [][\A t \in Tasks :
          (StartStep(t) /\ ReachesLedger(tool'[t])
              /\ StatusOf(IntentIdOf(tool'[t])) \in {EXECUTED, DUPLICATE})
          => /\ hpc'[t] = "returned"
             /\ hresult'[t].success = TRUE
             /\ HasField(hresult'[t], "is_duplicate")
             /\ hresult'[t].is_duplicate = TRUE
             /\ hresult'[t].appointment_id = IntentIdOf(tool'[t])
             /\ storage' = storage
             /\ executions' = executions
             /\ locks' = locks
             /\ webhookCalls' = webhookCalls
             /\ pc'[t] = "idle"]_vars

C14_Witness ==
    \E t \in Tasks :
        /\ hpc[t] = "returned"
        /\ checked[t] = "true"
        /\ hresult[t] = DuplicateReply("a")
        /\ pc[t] = "idle"
        /\ webhookCalls["a"] = 1

\* C15: every create_appointment result with success=true whose request did
\* not itself invoke the webhook carries is_duplicate=true, and the webhook
\* call count of the identity is 1.
C15_DuplicateAlwaysReported ==
    \A t \in Tasks :
        (/\ hpc[t] = "returned"
         /\ tool[t].name = "create_appointment"
         /\ hresult[t].success
         /\ ~called[t])
        => /\ HasField(hresult[t], "is_duplicate")
           /\ hresult[t].is_duplicate = TRUE
           /\ webhookCalls[IntentIdOf(tool[t])] = 1

\* C16: a failed storage write of the appointment does not end
\* create_appointment: whether the write succeeded or failed, the step that
\* ends it calls execute_calendar_intent, and that call goes on to the
\* webhook when a destination is configured, the identity's lock is free
\* and its record is neither EXECUTING nor EXECUTED.
C16_SaveFailureGoesOn ==
    [][\A t \in Tasks :
          (hpc[t] = "db_save" /\ hpc'[t] \notin {"db_save", "cancelled"})
          => LET k == IntentIdOf(tool[t])
             IN  /\ pc[t] = "idle"
                 /\ pc'[t] # "idle"
                 /\ tintent'[t] = k
                 /\ (/\ webhook_url
                     /\ StatusOf(k) \notin {EXECUTING, EXECUTED}
                     /\ locks[k] = 0 \/ CanAcquire(lockObjs[locks[k]]))
                    => /\ called'[t]
                       /\ webhookCalls'[k] = webhookCalls[k] + 1]_vars

C16_Witness ==
    \E t \in Tasks :
        /\ hpc[t] = "returned"
        /\ db_appointment_id[t] = None
        /\ storage[tkey(t)] = "none"
        /\ called[t]
        /\ result[t].status = EXECUTED
        /\ hresult[t].success

\* C17: when execute fails, create_appointment returns success=false with
\* should_retry=true and confirms no storage row: the row it wrote stays
\* unconfirmed.  A row becomes confirmed only in the storage update of a task
\* whose execute for that identity returned success.
C17_ConfirmOnlyAfterSuccess ==
    [][/\ \A t \in Tasks :
             (HandlerReturnStep(t) /\ pc'[t] = "done" /\ ~result'[t].success)
             => /\ hresult'[t].success = FALSE
                /\ hresult'[t].should_retry = TRUE
                /\ hresult'[t].appointment_id = db_appointment_id'[t]
                /\ \A k \in Keys : storage'[k] = "confirmed" => storage[k] = "confirmed"
                /\ db_appointment_id'[t] # None
                      => storage'[db_appointment_id'[t]] = "scheduled"
       /\ \A k \in Keys :
             (storage'[k] = "confirmed" /\ storage[k] # "confirmed")
             => \E t \in Tasks :
                   /\ hpc[t] = "db_confirm"
                   /\ hpc'[t] = "returned"
                   /\ tkey(t) = k
                   /\ pc[t] = "done"
                   /\ result[t].success]_vars

C17_Witness ==
    \E t, u \in Tasks :
        /\ hpc[t] = "returned"
        /\ result[t] # Nil
        /\ result[t].status = FAILED
        /\ hresult[t].success = FALSE
        /\ db_appointment_id[t] = "a"
        /\ hpc[u] = "returned"
        /\ result[u] # Nil
        /\ result[u].status = EXECUTED
        /\ storage["a"] = "scheduled"

\* A failure inside a route that the route does not handle itself:
\* tool_args.get on arguments that are no dict, zapier_response.get on a
\* webhook payload that is a JSON array
InternalFailureCase(t) ==
    \/ tool[t].name \in {"escalate_call", "end_call"} /\ tool[t].args.kind # "dict"
    \/ /\ tool[t].name = "create_appointment"
       /\ pc[t] = "done"
       /\ result[t].success
       /\ result[t].zapier_response.kind = "list"

\* C18: handle_tool_call passes no failure on: every call that ends returns
\* a dict with a success field, whatever the tool name and the arguments,
\* and a failure inside a route is returned as success=false with a
\* non-empty error text and should_retry=true.
C18_NoFailurePropagates ==
    \A t \in Tasks :
        hpc[t] = "returned"
        => /\ HasField(hresult[t], "success")
           /\ hresult[t].success \in BOOLEAN
           /\ InternalFailureCase(t)
                 => /\ hresult[t].success = FALSE
                    /\ hresult[t].should_retry = TRUE
                    /\ hresult[t].error \notin {Nil, NoText}

C18_Witness ==
    \E t, u \in Tasks :
        /\ hpc[t] = "returned"
        /\ tool[t].name = "end_call"
        /\ tool[t].args.kind = "none"
        /\ hresult[t] = InternalFailure(NoGet)
        /\ hpc[u] = "returned"
        /\ tool[u].name = "create_appointment"
        /\ InternalFailureCase(u)
        /\ hresult[u] = InternalFailure(ListNoGet)

\* C19: a tool name that is none of create_appointment, escalate_call,
\* complete_intake and end_call gets success=false with an error and
\* should_retry=false at once; the ledger, the locks, storage and the webhook
\* call counts stay as they are, and later calls are handled as usual.
C19_UnknownTool ==
    [][\A t \in Tasks :
          (StartStep(t) /\ tool'[t].name \notin
              {"create_appointment", "escalate_call", "complete_intake", "end_call"})
          => /\ hpc'[t] = "returned"
             /\ hresult'[t].success = FALSE
             /\ HasField(hresult'[t], "error")
             /\ hresult'[t].error \notin {Nil, NoText}
             /\ hresult'[t].should_retry = FALSE
             /\ executions' = executions
             /\ locks' = locks
             /\ storage' = storage
             /\ webhookCalls' = webhookCalls
             /\ \A u \in Tasks \ {t} : hpc'[u] = hpc[u] /\ pc'[u] = pc[u]]_vars

C19_Witness ==
    \E t, u \in Tasks :
        /\ t < u
        /\ hpc[t] = "returned"
        /\ tool[t].name = "transfer_call"
        /\ hresult[t] = UnknownTool("transfer_call")
        /\ hpc[u] = "returned"
        /\ called[u]
        /\ hresult[u].success

\* The caller-supplied fields of a tool call and their names
CallerFields == {"reason", "urgency", "structured_data"}

LightTools == {"escalate_call", "complete_intake", "end_call"}

TouchesNothing ==
    /\ executions' = executions
    /\ locks' = locks
    /\ storage' = storage
    /\ webhookCalls' = webhookCalls

\* C20 as the spec states it: escalate_call, complete_intake and end_call
\* return a success acknowledgment at once that carries every caller-supplied
\* field (reason, urgency, structured_data) unchanged, and touch neither the
\* ledger nor the webhook.
C20_FieldsCarriedThrough ==
    [][\A t \in Tasks :
          (StartStep(t) /\ tool'[t].name \in LightTools /\ tool'[t].args.kind = "dict")
          => /\ hpc'[t] = "returned"
             /\ hresult'[t].success = TRUE
             /\ \A f \in CallerFields :
                   HasField(tool'[t].args, f)
                   => /\ HasField(hresult'[t], f)
                      /\ hresult'[t][f] = tool'[t].args[f]
             /\ TouchesNothing]_vars

\* C20, amended: the three tools return a success acknowledgment at once and
\* touch neither the ledger nor the webhook, but only part of the caller's
\* fields is carried: escalate_call returns urgency (the caller's, or
\* "medium") and not reason, complete_intake returns no caller field,
\* end_call returns reason (the caller's, or "completed"); structured_data is
\* never returned.
C20_PartOfFieldsCarried ==
    [][\A t \in Tasks :
          (StartStep(t) /\ tool'[t].name \in LightTools /\ tool'[t].args.kind = "dict")
          => LET a == tool'[t].args
                 r == hresult'[t]
                 n == tool'[t].name
             IN  /\ hpc'[t] = "returned"
                 /\ r.success = TRUE
                 /\ HasField(r, "message")
                 /\ ~HasField(r, "structured_data")
                 /\ HasField(r, "urgency") <=> (n = "escalate_call")
                 /\ HasField(r, "reason") <=> (n = "end_call")
                 /\ n = "escalate_call"
                       => r.urgency = IF HasField(a, "urgency") THEN a.urgency
                                      ELSE "medium"
                 /\ n = "end_call"
                       => r.reason = IF HasField(a, "reason") THEN a.reason
                                     ELSE "completed"
                 /\ TouchesNothing]_vars

C20_Witness ==
    \E t \in Tasks :
        /\ hpc[t] = "returned"
        /\ tool[t].name = "end_call"
        /\ tool[t].args.kind = "dict"
        /\ HasField(tool[t].args, "reason")
        /\ hresult[t].success
        /\ hresult[t].reason = tool[t].args.reason

\* ------------------------------------------------- IntentService properties
\* The payload validate_calendar_intent was given, once it has run
Validated == iphase = "validated"

Missing(tool_args, field) ==
    field \notin DOMAIN tool_args \/ ~Truthy(tool_args[field])

MissingFields(tool_args) ==
    SelectSeq(required_fields, LAMBDA field : Missing(tool_args, field))

\* Some error entry has this field name in its text
Names(errors, field) ==
    \E i \in DOMAIN errors : \E k \in DOMAIN errors[i].text :
        errors[i].text[k] = field

\* Some error entry is about this field ("field: message")
Blames(errors, field) ==
    \E i \in DOMAIN errors : errors[i].text[1] = field

\* The payload has no attendees value, or an empty one
NoAttendeesGiven(tool_args) ==
    "attendees" \notin DOMAIN tool_args \/ ~Truthy(tool_args.attendees)

\* C21: parse_tool_call_safely returns an error and no data for an absent
\* payload, for an empty or blank string, for a string that is no JSON and
\* for a JSON text whose top level is no object; a dict is returned as it is
\* with no error, and so is the object a JSON text spells.
C21_ParseNeverRaises ==
    iphase # "given" =>
        /\ DOMAIN parsed = {"data", "error"}
        /\ raw_input.kind = "none" => parsed.data = Nil /\ parsed.error # Nil
        /\ (raw_input.kind = "str" /\ raw_input.doc.json # "object")
              => parsed.data = Nil /\ parsed.error # Nil
        /\ raw_input.kind = "dict" => parsed.data = raw_input /\ parsed.error = Nil
        /\ (raw_input.kind = "str" /\ raw_input.doc.json = "object")
              => parsed.data = raw_input.doc.value /\ parsed.error = Nil

C21_Witness ==
    /\ iphase = "parsed"
    /\ raw_input.kind = "str"
    /\ raw_input.doc.json = "list"
    /\ parsed.data = Nil
    /\ parsed.error = Str(<<"Expected object, got ", "list">>)

\* C22 (as stated): every required field that is missing or empty is named
\* in the errors of an invalid result, and a payload with all four fields
\* and a malformed attendee_email is rejected with an error that names
\* attendee_email.
C22_RejectsNamingEmailField ==
    Validated =>
        /\ \A f \in {"title", "start_time", "end_time", "attendee_email"} :
              Missing(parsed.data, f)
                 => /\ ~Raises(validation)
                    /\ ~validation.is_valid
                    /\ Names(validation.errors, f)
        /\ (/\ MissingFields(parsed.data) = <<>>
            /\ parsed.data.attendee_email = PyChars(InvalidEmail))
              => /\ ~Raises(validation)
                 /\ ~validation.is_valid
                 /\ Names(validation.errors, "attendee_email")

\* C22 (amended): every required field that is missing or empty is named in
\* the errors of an invalid result; a payload with all four fields, no
\* attendees value and a malformed attendee_email is rejected with an error
\* about the field attendees.
C22_RejectsNamingAttendees ==
    Validated =>
        /\ \A f \in {"title", "start_time", "end_time", "attendee_email"} :
              Missing(parsed.data, f)
                 => /\ ~Raises(validation)
                    /\ ~validation.is_valid
                    /\ Names(validation.errors, f)
        /\ (/\ MissingFields(parsed.data) = <<>>
            /\ NoAttendeesGiven(parsed.data)
            /\ parsed.data.attendee_email = PyChars(InvalidEmail))
              => /\ ~Raises(validation)
                 /\ ~validation.is_valid
                 /\ Blames(validation.errors, "attendees")

C22_Witness ==
    /\ Validated
    /\ MissingFields(parsed.data) = <<>>
    /\ "attendees" \notin DOMAIN parsed.data
    /\ parsed.data.title = PyStr("Checkup")
    /\ parsed.data.start_time = PyStr(StartTime)
    /\ parsed.data.attendee_email = PyChars(InvalidEmail)
    /\ ~validation.is_valid
    /\ validation.errors =
          <<Str(<<"attendees", ": ", "Value error, Invalid email format: ">>
                   \o InvalidEmail)>>

\* C23: when required fields are missing the result has one error entry for
\* each of them, and missing_fields of the orchestrator's reply is the list
\* of their names.
C23_OneEntryPerMissingField ==
    (Validated /\ MissingFields(parsed.data) # <<>>)
        => /\ ~Raises(validation)
           /\ ~validation.is_valid
           /\ Len(validation.errors) = Len(MissingFields(parsed.data))
           /\ ValidationFailure(validation).missing_fields
                 = MissingFields(parsed.data)

\* The attendee emails of a payload are well-formed
GoodEmail(v) == "chars" \in DOMAIN v /\ MatchesEmailRegex(NormalizeEmail(v.chars))
GoodList(v) ==
    /\ IsList(v)
    /\ v.list # <<>>
    /\ \A i \in DOMAIN v.list : GoodEmail(v.list[i])

\* C24: a payload with a title, a start and an end is accepted when it has
\* only attendee_email (the intent's attendees are that one address), only a
\* non-empty attendees list, or both (the intent's attendees are the list).
C24_EitherRepresentation ==
    (/\ Validated
     /\ \A f \in {"title", "start_time", "end_time"} : ~Missing(parsed.data, f)
     /\ parsed.data.title = PyStr("Checkup")
     /\ parsed.data.start_time = PyStr(StartTime)
     /\ \/ /\ "attendee_email" \in DOMAIN parsed.data
           /\ GoodEmail(parsed.data.attendee_email)
           /\ "attendees" \notin DOMAIN parsed.data
        \/ /\ "attendee_email" \notin DOMAIN parsed.data
           /\ "attendees" \in DOMAIN parsed.data
           /\ GoodList(parsed.data.attendees)
        \/ /\ "attendee_email" \in DOMAIN parsed.data
           /\ GoodEmail(parsed.data.attendee_email)
           /\ "attendees" \in DOMAIN parsed.data
           /\ GoodList(parsed.data.attendees))
        => /\ ~Raises(validation)
           /\ validation.is_valid
           /\ validation.intent.attendees =
                 IF "attendees" \in DOMAIN parsed.data
                 THEN [i \in DOMAIN parsed.data.attendees.list |->
                          NormalizeEmail(parsed.data.attendees.list[i].chars)]
                 ELSE <<NormalizeEmail(parsed.data.attendee_email.chars)>>

\* A payload that carries an identity of the caller's
HasIntentId(tool_args) ==
    "intent_id" \in DOMAIN tool_args /\ Truthy(tool_args.intent_id)

\* C25: two payloads without an identity of the caller's that are validated
\* to intents with the same title, start, end and first attendee get the
\* same intent_id.
C25_SameContentSameIdentity ==
    (Validated /\ ~Raises(validation) /\ validation.is_valid
        /\ ~HasIntentId(parsed.data))
        => \A q \in DictPayloads :
              LET w == validate_calendar_intent(q)
              IN  (/\ ~HasIntentId(q)
                   /\ ~Raises(w)
                   /\ w.is_valid
                   /\ w.intent.title = validation.intent.title
                   /\ w.intent.start_time = validation.intent.start_time
                   /\ w.intent.end_time = validation.intent.end_time
                   /\ w.intent.attendees[1] = validation.intent.attendees[1])
                     => w.intent.intent_id = validation.intent.intent_id

\* The first attendee of a payload as it was given
PrimaryAttendee(tool_args) ==
    IF NoAttendeesGiven(tool_args) THEN tool_args.attendee_email.chars
    ELSE tool_args.attendees.list[1].chars

\* C26: the intent_id of a validated intent is the caller's when the payload
\* carries one, and the digest of title, start, end and first attendee when
\* it carries none.
C26_SuppliedIdentityHonoured ==
    (Validated /\ ~Raises(validation) /\ validation.is_valid)
        => IF HasIntentId(parsed.data)
           THEN validation.intent.intent_id = parsed.data.intent_id.str
           ELSE validation.intent.intent_id =
                   Sha256Hex(<<parsed.data.title.str, "|",
                               parsed.data.start_time.str, "|",
                               parsed.data.end_time.str, "|",
                               PrimaryAttendee(parsed.data)>>)

C26_Witness ==
    /\ Validated
    /\ ~Raises(validation)
    /\ validation.is_valid
    /\ HasIntentId(parsed.data)
    /\ "attendees" \notin DOMAIN parsed.data
    /\ parsed.data.attendee_email = PyChars(ShoutedEmail)
    /\ validation.intent.intent_id = "a"

\* C27: validate_calendar_intent returns for every parsed object, and a
\* result that is not valid has at least one error and the payload it was
\* given.
C27_ValidateNeverRaises ==
    Validated =>
        /\ ~Raises(validation)
        /\ ~validation.is_valid
              => /\ validation.errors # <<>>
                 /\ validation.raw_input = parsed.data

\* -------------------------------------------------- StateService properties
\* C28: once a mark_escalated on a call has completed, the call's state has
\* escalated = True with the reason and urgency of that mark_escalated, on
\* either backend, until a set_state, a delete_state or the expiry replaces
\* or removes the state; no update_phase takes them away.
C28_EscalationNeverLost ==
    \A c \in CallIds :
        escalations[c] # Nil
            => /\ get_state(c) # Nil
               /\ "escalated" \in DOMAIN get_state(c)
               /\ get_state(c).escalated = TRUE
               /\ get_state(c).escalation_reason = escalations[c].reason
               /\ get_state(c).escalation_urgency = escalations[c].urgency

\* A call has a state; it was last written more than 24 hours ago
Present(c) == get_state(c) # Nil
Stale(c) == Present(c) /\ now - touched[c] > cleanup_interval

\* A step that removes the state of c and is no delete_state
RemovedByExpiry(c) == Present(c) /\ ~Present(c)' /\ sops' = sops

\* C29: a state that no operation has written for more than 24 hours is
\* removed in the end, whichever operation created it, and the expiry
\* removes no state that was written less than 24 hours before.
C29_ExpiryByInactivity ==
    /\ \A c \in CallIds : Stale(c) ~> ~Present(c)
    /\ [][\A c \in CallIds :
             RemovedByExpiry(c) => now' - touched[c] >= cleanup_interval]_vars

\* The step in which an update_phase writes the state
UpdatePhaseWrites ==
    /\ lastop'.op = "update_phase"
    /\ \/ ~use_redis /\ sops' = sops + 1
       \/ \E t \in Clients : spc[t] = "got" /\ spc'[t] = "idle"

\* C30 (as stated): update_phase(call, p) succeeds from every prior state,
\* get_phase(call) then returns p, every other key of the call's state is as
\* it was before, and so are the states of the other calls.
C30_OnlyPhaseChanges ==
    [][\A c \in CallIds : (UpdatePhaseWrites /\ lastop'.call_id = c)
         => LET prior == OrEmpty(get_state(c))
            IN  /\ get_phase(c)' = lastop'.written.phase
                /\ DOMAIN get_state(c)' = DOMAIN prior \cup {"phase"}
                /\ \A k \in DOMAIN prior \ {"phase"} : get_state(c)'[k] = prior[k]
                /\ \A d \in CallIds \ {c} : get_state(d)' = get_state(d)]_vars

\* C30 (amended): update_phase(call, p) succeeds from every prior state,
\* get_phase(call) then returns p, updated_at is the time of the call, every
\* other key of the call's state is as update_phase read it, and the states
\* of the other calls are as they were.
C30_PhaseAndUpdatedAtChange ==
    [][\A c \in CallIds : (UpdatePhaseWrites /\ lastop'.call_id = c)
         => LET read == lastop'.before
            IN  /\ get_phase(c)' = lastop'.written.phase
                /\ lastop'.written.phase \in PhaseInputs
                /\ DOMAIN get_state(c)' = DOMAIN read \cup {"phase", "updated_at"}
                /\ get_state(c)'.updated_at = now
                /\ \A k \in DOMAIN read \ {"phase", "updated_at"} :
                      get_state(c)'[k] = read[k]
                /\ \A d \in CallIds \ {c} : get_state(d)' = get_state(d)]_vars

C30_Witness ==
    /\ lastop.op = "update_phase"
    /\ "escalated" \in DOMAIN lastop.before
    /\ lastop.before.escalated = TRUE
    /\ lastop.before.phase = "escalation"
    /\ get_phase(lastop.call_id) = "intake"
    /\ get_state(lastop.call_id).escalated = TRUE

\* --------------------------------------------------------- ledger records
\* C32: a ledger record carries a response payload only when it is EXECUTED
\* and an error text only when it is FAILED: an EXECUTED record has no error,
\* an EXECUTING or FAILED record has the empty response payload and no
\* completion timestamp, and an EXECUTING record has no error either.
C32_PayloadAndErrorByStatus ==
    \A k \in Keys :
        executions[k] # Nil
        => /\ executions[k].status = EXECUTED => executions[k].error = Nil
           /\ executions[k].status \in {EXECUTING, FAILED}
                 => /\ executions[k].zapier_response = EmptyDict
                    /\ executions[k].executed_at = None
           /\ executions[k].status = EXECUTING => executions[k].error = Nil
           /\ executions[k].zapier_response # EmptyDict
                 => executions[k].status = EXECUTED
           /\ executions[k].error # Nil => executions[k].status = FAILED

C32_Witness ==
    \E k, j \in Keys :
        /\ StatusOf(k) = EXECUTED
        /\ executions[k].zapier_response # EmptyDict
        /\ executions[k].executed_at # None
        /\ StatusOf(j) = FAILED
        /\ executions[j].error # Nil
        /\ executions[j].error # NoText

\* C34 as the spec states it: whatever reset_execution does while an execute
\* for the identity is in flight, at most one webhook call per identity is
\* in flight at a time, and once reset_execution has removed the identity's
\* record the identity has no record until an execute for it starts.
C34_ResetKeepsSerialization ==
    /\ [](\A k \in Keys : Cardinality(InFlight(k)) <= 1)
    /\ [][\A k \in Keys :
             (purged[k] /\ executions[k] = Nil /\ executions'[k] # Nil)
             => \E t \in Tasks :
                   /\ pc[t] = "idle"
                   /\ pc'[t] # "idle"
                   /\ IntentKey(tintent'[t]) = k]_vars

\* C35: for an identity that reset_execution has not purged, at most one
\* execute call returns EXECUTED.
C35_AtMostOneExecuted ==
    \A k \in Keys : ~purged[k] => Cardinality(Returned(k, EXECUTED)) <= 1

C35_Witness ==
    \E k \in Keys :
        /\ ~purged[k]
        /\ Cardinality(Returned(k, FAILED)) = 1
        /\ Cardinality(Returned(k, EXECUTED)) = 1
        /\ Cardinality(Returned(k, DUPLICATE)) = 1

\* C36 as the spec states it: an EXECUTED record stays as it is, response
\* payload included, through every step but the reset_execution that
\* removes it.
C36_ExecutedIsStable ==
    [][\A k \in Keys :
          StatusOf(k) = EXECUTED
          => \/ executions'[k] = executions[k]
             \/ (resets' # resets /\ executions'[k] = Nil)]_vars

\* C37: every stored ledger record has status EXECUTING, EXECUTED or FAILED;
\* PENDING is never stored, and DUPLICATE is returned to callers but never
\* written.
C37_StoredStatuses ==
    \A k \in Keys :
        executions[k] # Nil => executions[k].status \in {EXECUTING, EXECUTED, FAILED}

C37_Witness ==
    \E t \in Tasks, j \in Keys :
        /\ pc[t] = "done"
        /\ result[t].status = DUPLICATE
        /\ StatusOf(tkey(t)) = EXECUTED
        /\ j # tkey(t)
        /\ StatusOf(j) = EXECUTING

\* ------------------------------------------------------ transcript buffer
\* The transcript buffer of a call's state, empty when the state has none
Buffer(c) ==
    IF ~Present(c) \/ "transcripts" \notin DOMAIN get_state(c) THEN <<>>
    ELSE get_state(c).transcripts

IsPrefix(s, t) == Len(s) <= Len(t) /\ SubSeq(t, 1, Len(s)) = s

\* A step that is a set_state on call c
SetStateStep(c) ==
    /\ sops' = sops + 1
    /\ lastop'.op = "set_state"
    /\ lastop'.call_id = c

\* C31 as the spec states it: over every step between the creation and the
\* deletion of a call's state, the transcript buffer before the step is a
\* prefix of the buffer after it.
C31_AppendOnly ==
    [][\A c \in CallIds :
          (Present(c) /\ Present(c)') => IsPrefix(Buffer(c), Buffer(c)')]_vars

\* C31: over every step but a set_state on the call, the transcript buffer
\* of a call whose state exists before and after the step only grows at its
\* end; a set_state replaces the buffer by the one of the state it is given.
C31_AppendOnlyButSetState ==
    [][\A c \in CallIds :
          /\ (Present(c) /\ Present(c)' /\ ~SetStateStep(c))
                => IsPrefix(Buffer(c), Buffer(c)')
          /\ SetStateStep(c) => Buffer(c)' = lastop'.written.transcripts]_vars

C31_Witness ==
    \E c \in CallIds :
        /\ lastop.op = "add_transcript_item"
        /\ Len(Buffer(c)) = 2
        /\ Buffer(c)[1].timestamp < Buffer(c)[2].timestamp
        /\ "phase" \in DOMAIN get_state(c)

\* ------------------------------------------------------------- timestamps
\* The text is a timestamp that spells its UTC offset ("Z" or +HH:MM)
HasUtcOffset(v) ==
    /\ Spelling(v).date # ""
    /\ Spelling(v).time # ""
    /\ Spelling(v).offset # ""

C38_MirrorAgrees ==
    \A t \in Tasks :
        (/\ hpc[t] = "returned"
         /\ tool[t].name = "create_appointment"
         /\ called[t]
         /\ pc[t] = "done"
         /\ result[t].status = EXECUTED
         /\ hresult[t].success)
        => storage[IntentIdOf(tool[t])] = "confirmed"

====
